---- MODULE Spec2Model ----
(***************************************************************************)
(* The report card of verapack                                             *)
(* (internal/components/reportcard/reportcard.go).                         *)
(*                                                                         *)
(* A Row is an ordered list of Tasks, one per task column.  start() puts   *)
(* the first NotStarted task InProgress, update() applies a task result to *)
(* the active task and decides what runs next, and setSelected / moveLeft  *)
(* / moveRight move the row's output selection.  Every Row method is an    *)
(* operator from a row record to the row record the method leaves behind.  *)
(* The Model is the dashboard: its rows, the selected row, the page        *)
(* window, the status counts, the key bindings and the output viewport;    *)
(* every Model method is an operator from a Model record to a Model        *)
(* record.                                                                 *)
(*                                                                         *)
(* The specifications:                                                     *)
(*   Spec          one row under direct calls of its methods;              *)
(*   SpecNew       NewRow and NewModel applied to constructor arguments;   *)
(*   SpecDash      a constructed dashboard processing key presses, task    *)
(*                 results and window sizes through Model.Update;          *)
(*   SpecPaginate  GetPaginationDetails applied to its arguments;          *)
(*   SpecPaged     a dashboard of up to seven rows in pages, under the     *)
(*                 same messages;                                          *)
(*   SpecViewer    the output viewer, DefaultViewport (viewport.go);       *)
(*   SpecWorkers   two workers that send the results of their rows         *)
(*                 concurrently;                                           *)
(*   SpecWorker    the worker of one application                           *)
(*                 (internal/verapack/composite.go) and its row;           *)
(*   SpecSelector  the selection grid, selector[T] (selector.go);          *)
(*   SpecLive      one row whose results are delivered, with fairness.     *)
(* A specification holds the variables it does not use at a fixed value.   *)
(*                                                                         *)
(* Indexes are 0-based as in the source, so tasks and rows are functions   *)
(* on 0..len-1 and -1 keeps its meaning of "not set".                      *)
(***************************************************************************)
EXTENDS Integers, FiniteSets, Sequences, TLC

VARIABLES
    row,    \* the Row under verification
    ret,    \* (PrevRowStatus, CurRowStatus) returned by the last update()
    last,   \* the event status of the last update(), NoMsg before the first
    cfg,    \* the arguments: of a dashboard, of a call, of a worker
    data,   \* what is built from cfg: rows, a result, a viewer, a worker
    m       \* the dashboard Model

vars == <<row, ret, last, cfg, data, m>>

----------------------------------------------------------------------------
(* TaskStatus and RowStatus share one const block, so iota keeps counting. *)

NotStarted == 0
Success == 1
Warning == 2
InProgress == 3
Failure == 4
Skip == 5

RowNotStarted == 10
RowStarted == 11
RowSuccess == 12
RowWarning == 13
RowFailure == 14

TaskStatuses == {NotStarted, Success, Warning, InProgress, Failure, Skip}
RowStatuses == {RowNotStarted, RowStarted, RowSuccess, RowWarning, RowFailure}
TerminalRowStatuses == {RowSuccess, RowWarning, RowFailure}

----------------------------------------------------------------------------
(* Bounds.                                                                 *)

NumCols == 3        \* task columns of the row
DashCols == 2       \* task columns of the dashboard
MaxRows == 2        \* rows of the dashboard
MaxPageSize == 1    \* WithPageSize(1..MaxPageSize)
MaxYOffset == 1     \* lines the output can be scrolled down
MaxNewCols == 2     \* columns a constructor is given
MaxPrefix == 1      \* prefix columns and prefix values a constructor is given
MaxSupplied == 2    \* tasks supplied to NewRow
MaxNewRows == 2     \* rows given to NewModel

PageSizes == 1..MaxPageSize
WindowSizes == {<<100, 30>>}

\* Output is an opaque payload: the row only tests it against nil and stores
\* it, so nil and one payload value are the cases there are.
Nil == "nil"
Outputs == {"out"}
NoCustom == "none"
CustomTaskStatuses == {NoCustom, "custom"}

ColName(i) == "t" \o ToString(i + 1)
Indexes == 0..(NumCols - 1)

NumTasks(tasks) == Cardinality(DOMAIN tasks)

----------------------------------------------------------------------------
(* Construction.                                                           *)

\* NewTask(name, runAnyWayFor...)
NewTask(name, runAnyWayFor) ==
    [ name                |-> name,
      status              |-> NotStarted,
      shouldRunAnywayFor  |-> runAnyWayFor,
      hasOutput           |-> FALSE,
      viewportInputData   |-> Nil,
      customSuccessStatus |-> NoCustom ]

\* The zero Task that NewRow names after its column and sets to Skip.
SkipTask(name) ==
    [ name                |-> name,
      status              |-> Skip,
      shouldRunAnywayFor  |-> {},
      hasOutput           |-> FALSE,
      viewportInputData   |-> Nil,
      customSuccessStatus |-> NoCustom ]

NoPanic == "none"
PanicNoColumns == "columns can't be empty"
PanicTaskName == "task name does not match a column name"

\* Mutant: every column name refers to the first column.
columnsReference_FirstColumn(columns) ==
    [n \in {columns[i] : i \in DOMAIN columns} |-> 0]

\* r.columnsReference: the index of each column name; the loop over the
\* columns overwrites, so a name that occurs twice keeps its last index.
columnsReference(columns) ==
    [n \in {columns[i] : i \in DOMAIN columns} |->
        (CHOOSE i \in DOMAIN columns :
            /\ columns[i] = n
            /\ \A j \in DOMAIN columns : columns[j] = n => j <= i) - 1]

\* The loop that puts each supplied task on the column of its name, from
\* the k-th supplied task on; an unknown name panics.
RECURSIVE PlaceTasks(_, _, _, _)
PlaceTasks(r, tasks, ref, k) ==
    IF k > Len(tasks) THEN [panic |-> NoPanic, row |-> r]
    ELSE IF tasks[k].name \in DOMAIN ref
    THEN PlaceTasks([r EXCEPT !.tasks[ref[tasks[k].name]] = tasks[k]],
                    tasks, ref, k + 1)
    ELSE [panic |-> PanicTaskName, row |-> r]

\* NewRow(name, tasks, prefixValues, columns): tasks is the list of supplied
\* tasks and columns the list of column names.  The result is the row, or
\* the panic that ends the call.
NewRow(name, tasks, prefixValues, columns) ==
    LET r == [ name              |-> name,
               status            |-> RowNotStarted,
               tasks             |-> [i \in 0..(Len(columns) - 1) |->
                                        SkipTask(columns[i + 1])],
               prefixValues      |-> prefixValues,
               activeTaskIndex   |-> 0,
               defaultTaskIndex  |-> -1,
               selectedTaskIndex |-> -1 ]
    IN  IF Len(columns) = 0 THEN [panic |-> PanicNoColumns, row |-> r]
        ELSE PlaceTasks(r, tasks, columnsReference(columns), 1)

\* The run-anyway lists a supplied task may carry.  update() only ever tests
\* a list for the name of a task at a lower index, so the lists range over
\* the names of the earlier columns.
RunAnywayChoices(i) == SUBSET {ColName(j) : j \in 0..(i - 1)}

\* Every way of supplying tasks to the columns.
SuppliedTasks ==
    UNION { { f \in [cols -> SUBSET {ColName(j) : j \in Indexes}] :
                \A i \in cols : f[i] \in RunAnywayChoices(i) } :
            cols \in SUBSET Indexes }

\* The columns of the row under verification, and the supplied tasks as the
\* list NewRow takes, from column index k on.
Columns == [i \in 1..NumCols |-> ColName(i - 1)]

RECURSIVE TaskList(_, _)
TaskList(supplied, k) ==
    IF k >= NumCols THEN <<>>
    ELSE (IF k \in DOMAIN supplied
          THEN <<NewTask(ColName(k), supplied[k])>> ELSE <<>>)
         \o TaskList(supplied, k + 1)

TaskResultMsgs ==
    [ Status              : TaskStatuses,
      Output              : {Nil} \cup Outputs,
      ForceDefault        : BOOLEAN,
      CustomSuccessStatus : CustomTaskStatuses ]

NoMsg == [Status |-> -1]

----------------------------------------------------------------------------
(* Row.start                                                               *)

\* Mutant: start() turns away only a row that is running.
StartRejected_OnlyStarted(r) == r.status = RowStarted

\* The guard of start(): only a RowNotStarted row is started.
StartRejected(r) == r.status # RowNotStarted

NotStartedIndexes(r) == {k \in DOMAIN r.tasks : r.tasks[k].status = NotStarted}

Min(S) == CHOOSE x \in S : \A y \in S : x <= y
Max(S) == CHOOSE x \in S : \A y \in S : x >= y

\* Mutant: start() starts the last NotStarted task instead of the first.
RowStart_LastNotStarted(r) ==
    IF StartRejected(r) THEN r
    ELSE IF NotStartedIndexes(r) # {}
         THEN LET k == Max(NotStartedIndexes(r))
              IN  [r EXCEPT !.activeTaskIndex = k,
                            !.tasks[k].status = InProgress,
                            !.status = RowStarted]
         ELSE [r EXCEPT !.status = RowSuccess]

\* Mutant: start() starts the first NotStarted task and leaves
\* activeTaskIndex as it was.
RowStart_KeepsActiveIndex(r) ==
    IF StartRejected(r) THEN r
    ELSE IF NotStartedIndexes(r) # {}
         THEN LET k == Min(NotStartedIndexes(r))
              IN  [r EXCEPT !.tasks[k].status = InProgress,
                            !.status = RowStarted]
         ELSE [r EXCEPT !.status = RowSuccess]

RowStart(r) ==
    IF StartRejected(r) THEN r
    ELSE IF NotStartedIndexes(r) # {}
         THEN LET k == Min(NotStartedIndexes(r))
              IN  [r EXCEPT !.activeTaskIndex = k,
                            !.tasks[k].status = InProgress,
                            !.status = RowStarted]
         ELSE [r EXCEPT !.status = RowSuccess]

----------------------------------------------------------------------------
(* Row.update                                                              *)

\* Mutant: update() turns away only a row that has not started.
UpdateRejected_OnlyNotStarted(r) == r.status = RowNotStarted

\* "Can't send updates to a finished or not started row."
UpdateRejected(r) == r.status # RowStarted

\* Mutant: only the InProgress status is ignored.
IgnoredStatus_OnlyInProgress(msg) == msg.Status = InProgress

\* "the active task is already InProgress ... a task can't be returned to
\* NotStarted."
IgnoredStatus(msg) == msg.Status = InProgress \/ msg.Status = NotStarted

\* Mutant: the membership test with its two tasks swapped.
canTaskRunAnyway_Swapped(r, taskIndex) ==
    r.tasks[taskIndex].name \in r.tasks[r.activeTaskIndex].shouldRunAnywayFor

\* canTaskRunAnyway(taskIndex): is the name of the task at activeTaskIndex in
\* the run-anyway list of the task at taskIndex.
canTaskRunAnyway(r, taskIndex) ==
    r.tasks[r.activeTaskIndex].name \in r.tasks[taskIndex].shouldRunAnywayFor

\* Mutant: a Failure or Warning always replaces the default, whatever the
\* status of the task that is the default.
setDefaultDisplayTask_FailureReplaces(r, taskIndex, msg) ==
    IF msg.ForceDefault
    THEN [r EXCEPT !.defaultTaskIndex = taskIndex]
    ELSE IF r.defaultTaskIndex < 0
            \/ r.tasks[r.defaultTaskIndex].status = Success
    THEN [r EXCEPT !.defaultTaskIndex = taskIndex]
    ELSE IF msg.Status = Failure \/ msg.Status = Warning
    THEN [r EXCEPT !.defaultTaskIndex = taskIndex]
    ELSE r

\* Mutant: the latest task with output always becomes the default.
setDefaultDisplayTask_LatestWins(r, taskIndex, msg) ==
    [r EXCEPT !.defaultTaskIndex = taskIndex]

\* setDefaultDisplayTask(taskIndex, msg)
setDefaultDisplayTask(r, taskIndex, msg) ==
    IF msg.ForceDefault
    THEN [r EXCEPT !.defaultTaskIndex = taskIndex]
    ELSE IF r.defaultTaskIndex < 0
            \/ r.tasks[r.defaultTaskIndex].status = Success
    THEN [r EXCEPT !.defaultTaskIndex = taskIndex]
    ELSE IF (msg.Status = Failure \/ msg.Status = Warning)
            /\ r.tasks[r.defaultTaskIndex].status # Failure
            /\ r.tasks[r.defaultTaskIndex].status # Warning
    THEN [r EXCEPT !.defaultTaskIndex = taskIndex]
    ELSE r

\* The result is written to the active task: its status, its custom success
\* status on Success, and its output when the event carries one.
\* Mutant: the reported task is replaced by a new Task of the same name,
\* which loses its run-anyway list.
ApplyResult_ReplacesTask(r, msg) ==
    LET a  == r.activeTaskIndex
        r1 == [r EXCEPT !.tasks[a] =
                  [NewTask(@.name, {}) EXCEPT
                      !.status = msg.Status,
                      !.hasOutput = r.tasks[a].hasOutput,
                      !.viewportInputData = r.tasks[a].viewportInputData,
                      !.customSuccessStatus = r.tasks[a].customSuccessStatus]]
        r2 == IF msg.Status = Success
              THEN [r1 EXCEPT !.tasks[a].customSuccessStatus =
                                   msg.CustomSuccessStatus]
              ELSE r1
    IN  IF msg.Output # Nil
        THEN setDefaultDisplayTask(
                 [r2 EXCEPT !.tasks[a].hasOutput = TRUE,
                            !.tasks[a].viewportInputData = msg.Output],
                 a, msg)
        ELSE r2

ApplyResult(r, msg) ==
    LET a  == r.activeTaskIndex
        r1 == [r EXCEPT !.tasks[a].status = msg.Status]
        r2 == IF msg.Status = Success
              THEN [r1 EXCEPT !.tasks[a].customSuccessStatus =
                                   msg.CustomSuccessStatus]
              ELSE r1
    IN  IF msg.Output # Nil
        THEN setDefaultDisplayTask(
                 [r2 EXCEPT !.tasks[a].hasOutput = TRUE,
                            !.tasks[a].viewportInputData = msg.Output],
                 a, msg)
        ELSE r2

\* Mutant: the loop puts the task that was just reported back InProgress.
Scan_RestartsActive(r, k, status, rowNotDone) ==
    [row |-> [r EXCEPT !.tasks[r.activeTaskIndex].status = InProgress],
     rowNotDone |-> TRUE]

\* Mutant: the loop starts the task at index k whatever its status.
Scan_StartsNextColumn(r, k, status, rowNotDone) ==
    IF k >= NumTasks(r.tasks)
    THEN [row |-> r, rowNotDone |-> rowNotDone]
    ELSE [row |-> [r EXCEPT !.tasks[k].status = InProgress,
                            !.activeTaskIndex = k],
          rowNotDone |-> TRUE]

\* The loop over the tasks after the active one, from index k on.  After a
\* Failure the loop runs to the end of the row and every test of
\* canTaskRunAnyway reads the activeTaskIndex the loop has set so far; after
\* any other status it stops at the first NotStarted task.
RECURSIVE Scan(_, _, _, _)
Scan(r, k, status, rowNotDone) ==
    IF k >= NumTasks(r.tasks)
    THEN [row |-> r, rowNotDone |-> rowNotDone]
    ELSE IF r.tasks[k].status # NotStarted
    THEN Scan(r, k + 1, status, rowNotDone)
    ELSE IF status = Failure
    THEN IF canTaskRunAnyway(r, k)
         THEN Scan([r EXCEPT !.tasks[k].status = InProgress,
                             !.activeTaskIndex = k],
                   k + 1, status, TRUE)
         ELSE Scan([r EXCEPT !.tasks[k].status = Skip],
                   k + 1, status, rowNotDone)
    ELSE [row |-> [r EXCEPT !.tasks[k].status = InProgress,
                            !.activeTaskIndex = k],
          rowNotDone |-> TRUE]

\* The status of a row that is done: the loop over the tasks returns at the
\* first task that is Failure or Warning.
RECURSIVE DoneStatusFrom(_, _)
DoneStatusFrom(tasks, k) ==
    IF k >= NumTasks(tasks) THEN RowSuccess
    ELSE IF tasks[k].status = Failure THEN RowFailure
    ELSE IF tasks[k].status = Warning THEN RowWarning
    ELSE DoneStatusFrom(tasks, k + 1)

\* Mutant: the done status ranked by severity instead of by task order.
DoneStatus_BySeverity(tasks) ==
    IF \E k \in DOMAIN tasks : tasks[k].status = Failure THEN RowFailure
    ELSE IF \E k \in DOMAIN tasks : tasks[k].status = Warning THEN RowWarning
    ELSE RowSuccess

DoneStatus(tasks) == DoneStatusFrom(tasks, 0)

\* update(msg): the row it leaves and the pair it returns.
RowUpdate(r, msg) ==
    IF UpdateRejected(r) \/ IgnoredStatus(msg)
    THEN [row |-> r, prev |-> r.status, cur |-> r.status]
    ELSE LET applied == ApplyResult(r, msg)
             scanned == Scan(applied, applied.activeTaskIndex + 1,
                             msg.Status, FALSE)
             after   == IF scanned.rowNotDone THEN scanned.row
                        ELSE [scanned.row EXCEPT
                                 !.status = DoneStatus(scanned.row.tasks)]
         IN  [row |-> after, prev |-> r.status, cur |-> after.status]

----------------------------------------------------------------------------
(* Output selection inside a row.                                          *)

hasOutputToDisplay(r) == r.defaultTaskIndex >= 0

\* Mutant: a selection that is already made is kept.
setSelected_KeepsSelection(r) ==
    IF ~hasOutputToDisplay(r) \/ r.selectedTaskIndex >= 0 THEN r
    ELSE [r EXCEPT !.selectedTaskIndex = r.defaultTaskIndex]

setSelected(r) ==
    IF ~hasOutputToDisplay(r) THEN r
    ELSE [r EXCEPT !.selectedTaskIndex = r.defaultTaskIndex]

OutputsLeft(r) ==
    {k \in DOMAIN r.tasks : k < r.selectedTaskIndex /\ r.tasks[k].hasOutput}

OutputsRight(r) ==
    {k \in DOMAIN r.tasks : k > r.selectedTaskIndex /\ r.tasks[k].hasOutput}

\* Mutant: the scan goes on to the lowest index that has output.
moveLeft_Leftmost(r) ==
    IF OutputsLeft(r) = {} THEN r
    ELSE [r EXCEPT !.selectedTaskIndex = Min(OutputsLeft(r))]

\* moveLeft(): the loop from selectedTaskIndex - 1 down to 0 stops at the
\* first task that has output; k is the index the loop has reached.
RECURSIVE moveLeftFrom(_, _)
moveLeftFrom(r, k) ==
    IF k < 0 THEN r
    ELSE IF r.tasks[k].hasOutput THEN [r EXCEPT !.selectedTaskIndex = k]
    ELSE moveLeftFrom(r, k - 1)

moveLeft(r) == moveLeftFrom(r, r.selectedTaskIndex - 1)

\* moveRight(): the loop from selectedTaskIndex + 1 up to the last task.
RECURSIVE moveRightFrom(_, _)
moveRightFrom(r, k) ==
    IF k >= NumTasks(r.tasks) THEN r
    ELSE IF r.tasks[k].hasOutput THEN [r EXCEPT !.selectedTaskIndex = k]
    ELSE moveRightFrom(r, k + 1)

\* Mutant: the selection moves to the next column, with output or not.
moveRight_NextColumn(r) ==
    IF r.selectedTaskIndex + 1 < NumTasks(r.tasks)
    THEN [r EXCEPT !.selectedTaskIndex = @ + 1]
    ELSE r

moveRight(r) == moveRightFrom(r, r.selectedTaskIndex + 1)

----------------------------------------------------------------------------
(* The row under verification and the calls made on it.                    *)

\* The values of the variables a specification does not use.
NoRow == [status |-> 0]
NoCfg == [rows |-> <<>>]
NoData == [panic |-> NoPanic]
NoModel == [panic |-> NoPanic]

Init ==
    /\ \E supplied \in SuppliedTasks :
          row = NewRow("app", TaskList(supplied, 0), <<"type">>, Columns).row
    /\ ret = <<0, 0>>
    /\ last = NoMsg
    /\ cfg = NoCfg
    /\ data = NoData
    /\ m = NoModel

Start ==
    /\ row' = RowStart(row)
    /\ UNCHANGED <<ret, last, cfg, data, m>>

Update(msg) ==
    LET u == RowUpdate(row, msg)
    IN  /\ row' = u.row
        /\ ret' = <<u.prev, u.cur>>
        /\ last' = [Status |-> msg.Status]
        /\ UNCHANGED <<cfg, data, m>>

SetSelected ==
    /\ row' = setSelected(row)
    /\ UNCHANGED <<ret, last, cfg, data, m>>

MoveLeft ==
    /\ row' = moveLeft(row)
    /\ UNCHANGED <<ret, last, cfg, data, m>>

MoveRight ==
    /\ row' = moveRight(row)
    /\ UNCHANGED <<ret, last, cfg, data, m>>

Next ==
    \/ Start
    \/ \E msg \in TaskResultMsgs : Update(msg)
    \/ SetSelected
    \/ MoveLeft
    \/ MoveRight

Spec == Init /\ [][Next]_vars

TypeOK ==
    /\ row.status \in RowStatuses
    /\ \A k \in DOMAIN row.tasks : row.tasks[k].status \in TaskStatuses
    /\ row.activeTaskIndex \in Indexes
    /\ row.defaultTaskIndex \in {-1} \cup Indexes
    /\ row.selectedTaskIndex \in {-1} \cup Indexes

----------------------------------------------------------------------------
(* The dashboard Model.                                                    *)

defaultPageSize == 6

PanicValidate == "the number of columns doesn't match"
PanicIndex == "index out of range"

\* What is left of a Model when a call on it panics: the program has ended.
Panicked(message) == [panic |-> message]

\* DefaultKeyMap() and DefaultRowKeyMap(): whether each binding is enabled.
DefaultKeyMap ==
    [ Quit            |-> TRUE,
      Help            |-> TRUE,
      LineUp          |-> TRUE,
      LineDown        |-> TRUE,
      PageDownSummary |-> TRUE,
      PageUpSummary   |-> TRUE,
      PageDown        |-> FALSE,
      PageUp          |-> FALSE,
      HalfPageUp      |-> FALSE,
      HalfPageDown    |-> FALSE,
      Up              |-> FALSE,
      Down            |-> FALSE ]

DefaultRowKeyMap ==
    [ Left       |-> FALSE,
      Right      |-> FALSE,
      ShowOutput |-> FALSE ]

\* The bindings have pairwise different keys, so a key press is named by the
\* one binding it can match.
GlobalKeys == DOMAIN DefaultKeyMap
RowKeys == DOMAIN DefaultRowKeyMap
Keys == GlobalKeys \cup RowKeys

\* &DefaultViewport{}
DefaultViewport ==
    [ hasBeenInitialized |-> FALSE,
      width              |-> 0,
      height             |-> 0,
      content            |-> Nil,
      yOffset            |-> 0 ]

\* DefaultViewport.SetDimensions
SetDimensions(v, width, height) ==
    [v EXCEPT !.width = width, !.height = height]

\* DefaultViewport.SetContent: only a string is taken as content.
SetContent(v, inputData) ==
    IF inputData # Nil
    THEN [v EXCEPT !.content = inputData, !.yOffset = 0]
    ELSE v

\* DefaultViewport.Init
ViewportInit(v, width, height, inputData) ==
    IF ~v.hasBeenInitialized
    THEN SetContent(
             SetDimensions([DefaultViewport EXCEPT !.hasBeenInitialized = TRUE],
                           width, height),
             inputData)
    ELSE v

\* int(float64(termWidth) * viewportWidthMultiplier) with multiplier 0.6, and
\* the same for the height with multiplier 0.3.
ViewportWidth(termWidth) == (termWidth * 6) \div 10
ViewportHeight(termHeight) == (termHeight * 3) \div 10

\* Mutant: a bucket that reaches zero is kept in the map.
updateStatusCounts_KeepsEmptyBucket(counts, addStatus, removeStatus) ==
    LET added ==
            IF addStatus = 0 THEN counts
            ELSE IF addStatus \in DOMAIN counts
            THEN [counts EXCEPT ![addStatus] = @ + 1]
            ELSE [s \in DOMAIN counts \cup {addStatus} |->
                     IF s = addStatus THEN 1 ELSE counts[s]]
    IN  IF removeStatus # 0 /\ removeStatus \in DOMAIN added
        THEN [added EXCEPT ![removeStatus] = @ - 1]
        ELSE added

\* updateStatusCounts(addStatus, removeStatus) on the map statusCounts.
updateStatusCounts(counts, addStatus, removeStatus) ==
    LET added ==
            IF addStatus = 0 THEN counts
            ELSE IF addStatus \in DOMAIN counts
            THEN [counts EXCEPT ![addStatus] = @ + 1]
            ELSE [s \in DOMAIN counts \cup {addStatus} |->
                     IF s = addStatus THEN 1 ELSE counts[s]]
    IN  IF removeStatus # 0 /\ removeStatus \in DOMAIN added
        THEN IF added[removeStatus] - 1 > 0
             THEN [added EXCEPT ![removeStatus] = @ - 1]
             ELSE [s \in DOMAIN added \ {removeStatus} |-> added[s]]
        ELSE added

\* Mutant: the last index of the page is not cut to the last element.
GetPaginationDetails_Full(totalElements, elementsPerPage, currentElementIndex) ==
    LET start == (currentElementIndex \div elementsPerPage) * elementsPerPage
    IN  [ numPages       |-> (totalElements + elementsPerPage - 1)
                                \div elementsPerPage,
          currentPage    |-> (start + elementsPerPage - 1)
                                \div elementsPerPage,
          pageStartIndex |-> start,
          pageEndIndex   |-> start + elementsPerPage - 1 ]

\* GetPaginationDetails(totalElements, elementsPerPage, currentElementIndex)
GetPaginationDetails(totalElements, elementsPerPage, currentElementIndex) ==
    LET start == (currentElementIndex \div elementsPerPage) * elementsPerPage
    IN  [ numPages       |-> (totalElements + elementsPerPage - 1)
                                \div elementsPerPage,
          currentPage    |-> (start + elementsPerPage - 1)
                                \div elementsPerPage,
          pageStartIndex |-> start,
          pageEndIndex   |-> IF start + elementsPerPage - 1 < totalElements - 1
                             THEN start + elementsPerPage - 1
                             ELSE totalElements - 1 ]

\* The assignment of the page window that LineUp, LineDown, PageUp and
\* PageDown make from GetPaginationDetails.
SetPage(md) ==
    LET p == GetPaginationDetails(NumTasks(md.rows), md.pageSize,
                                  md.selectedRow)
    IN  [md EXCEPT !.pageCurrentStart = p.pageStartIndex,
                   !.pageCurrentEnd = p.pageEndIndex]

\* Mutant: moving up from row 0 goes to the last row.
LineUp_Wraps(md) ==
    LET m1 == IF md.selectedRow - 1 >= 0
              THEN [md EXCEPT !.selectedRow = @ - 1]
              ELSE [md EXCEPT !.selectedRow = NumTasks(md.rows) - 1]
    IN  IF m1.selectedRow < m1.pageCurrentStart
           \/ m1.selectedRow > m1.pageCurrentEnd
        THEN SetPage(m1) ELSE m1

LineUp(md) ==
    LET m1 == IF md.selectedRow - 1 >= 0
              THEN [md EXCEPT !.selectedRow = @ - 1] ELSE md
    IN  IF m1.selectedRow < m1.pageCurrentStart THEN SetPage(m1) ELSE m1

\* Mutant: the page window is left alone when the cursor leaves it.
LineDown_KeepsWindow(md) ==
    IF md.selectedRow + 1 < NumTasks(md.rows)
    THEN [md EXCEPT !.selectedRow = @ + 1] ELSE md

LineDown(md) ==
    LET m1 == IF md.selectedRow + 1 < NumTasks(md.rows)
              THEN [md EXCEPT !.selectedRow = @ + 1] ELSE md
    IN  IF m1.selectedRow > m1.pageCurrentEnd THEN SetPage(m1) ELSE m1

PageUp(md) ==
    IF md.pageCurrentStart - md.pageSize >= 0
    THEN SetPage([md EXCEPT !.selectedRow = md.pageCurrentStart - md.pageSize])
    ELSE md

\* Mutant: the cursor keeps its offset in the page it lands on.
PageDown_KeepsOffset(md) ==
    IF md.pageCurrentEnd + 1 < NumTasks(md.rows)
    THEN SetPage([md EXCEPT !.selectedRow =
                    Min({md.selectedRow + md.pageSize,
                         NumTasks(md.rows) - 1})])
    ELSE md

PageDown(md) ==
    IF md.pageCurrentEnd + 1 < NumTasks(md.rows)
    THEN SetPage([md EXCEPT !.selectedRow = md.pageCurrentEnd + 1])
    ELSE md

shouldShowLeft(r) == OutputsLeft(r) # {}
shouldShowRight(r) == OutputsRight(r) # {}

\* getOutput(): the content of the selected task, nil when none is selected.
getOutput(r) ==
    IF r.selectedTaskIndex < 0 THEN Nil
    ELSE r.tasks[r.selectedTaskIndex].viewportInputData

\* Mutant: the row keys follow the selected row only, not the output pane.
SetActiveKeys_RowKeysIgnorePane(md) ==
    LET r == md.rows[md.selectedRow]
    IN  [md EXCEPT
           !.KeyMap.LineDown = md.selectedRow < NumTasks(md.rows) - 1,
           !.KeyMap.LineUp = md.selectedRow > 0,
           !.KeyMap.Down = md.showOutput,
           !.KeyMap.Up = md.showOutput,
           !.KeyMap.PageDown = md.showOutput,
           !.KeyMap.PageUp = md.showOutput,
           !.KeyMap.HalfPageDown = md.showOutput,
           !.KeyMap.HalfPageUp = md.showOutput,
           !.RowKeyMap.Left = shouldShowLeft(r),
           !.RowKeyMap.Right = shouldShowRight(r),
           !.RowKeyMap.ShowOutput = hasOutputToDisplay(r),
           !.showRowHelp = shouldShowLeft(r) \/ shouldShowRight(r)
                              \/ hasOutputToDisplay(r)]

\* SetActiveKeys(): the global keys are set first; m.rows[m.selectedRow] is
\* then read without a bounds check, which panics when there is no such row.
SetActiveKeys(md) ==
    LET g == [md EXCEPT
                !.KeyMap.LineDown = md.selectedRow < NumTasks(md.rows) - 1,
                !.KeyMap.LineUp = md.selectedRow > 0,
                !.KeyMap.Down = md.showOutput,
                !.KeyMap.Up = md.showOutput,
                !.KeyMap.PageDown = md.showOutput,
                !.KeyMap.PageUp = md.showOutput,
                !.KeyMap.HalfPageDown = md.showOutput,
                !.KeyMap.HalfPageUp = md.showOutput]
    IN  IF md.selectedRow \notin DOMAIN md.rows
        THEN Panicked(PanicIndex)
        ELSE LET r == md.rows[md.selectedRow]
                 left == shouldShowLeft(r) /\ md.showOutput
                 right == shouldShowRight(r) /\ md.showOutput
                 showOutput == hasOutputToDisplay(r)
             IN  [g EXCEPT !.RowKeyMap.Left = left,
                           !.RowKeyMap.Right = right,
                           !.RowKeyMap.ShowOutput = showOutput,
                           !.showRowHelp = left \/ right \/ showOutput]

\* setOutput(): hands the selected task's output to the viewport.
setOutput(md) ==
    LET r == md.rows[md.selectedRow]
    IN  IF hasOutputToDisplay(r) /\ md.showOutput
        THEN IF ~md.defaultViewport.hasBeenInitialized
             THEN [md EXCEPT !.defaultViewport =
                      ViewportInit(@, ViewportWidth(md.termWidth),
                                   ViewportHeight(md.termHeight),
                                   getOutput(r))]
             ELSE [md EXCEPT !.defaultViewport = SetContent(@, getOutput(r))]
        ELSE md

\* validateData(): only the sum of the task and prefix counts is compared.
validateData(md) ==
    IF \E k \in DOMAIN md.rows :
          Len(md.taskColumns) + Len(md.prefixColumns)
             # NumTasks(md.rows[k].tasks) + Len(md.rows[k].prefixValues)
    THEN Panicked(PanicValidate)
    ELSE md

\* The loop of NewModel that starts every row and counts its status.
RECURSIVE StartRows(_, _)
StartRows(md, k) ==
    IF k >= NumTasks(md.rows) THEN md
    ELSE LET started == RowStart(md.rows[k])
         IN  StartRows([md EXCEPT
                          !.rows[k] = started,
                          !.statusCounts =
                             updateStatusCounts(@, started.status, 0)],
                       k + 1)

\* NewModel(WithData(rows...), WithTasks(taskColumns),
\* WithPrefixColumns(prefixColumns), WithPageSize(pageSize)): rows is the
\* 0-based list of the rows.  The result is the Model, with panic set when
\* the call does not return.
NewModel(rows, taskColumns, prefixColumns, pageSize) ==
    LET m0 == [ panic            |-> NoPanic,
                quit             |-> FALSE,
                KeyMap           |-> DefaultKeyMap,
                RowKeyMap        |-> DefaultRowKeyMap,
                showRowHelp      |-> FALSE,
                taskColumns      |-> taskColumns,
                prefixColumns    |-> prefixColumns,
                rows             |-> rows,
                selectedRow      |-> 0,
                showOutput       |-> FALSE,
                termWidth        |-> 0,
                termHeight       |-> 0,
                pageSize         |-> IF pageSize > 1 THEN pageSize ELSE 1,
                pageCurrentStart |-> 0,
                pageCurrentEnd   |-> 0,
                statusCounts     |-> <<>>,
                defaultViewport  |-> DefaultViewport ]
        m1 == [m0 EXCEPT !.pageCurrentEnd =
                  IF m0.pageCurrentStart + m0.pageSize - 1
                        < NumTasks(rows) - 1
                  THEN m0.pageCurrentStart + m0.pageSize - 1
                  ELSE NumTasks(rows) - 1]
        m2 == validateData(StartRows(m1, 0))
    IN  IF m2.panic # NoPanic THEN m2 ELSE SetActiveKeys(m2)

----------------------------------------------------------------------------
(* Model.Update                                                            *)

\* The scroll calls on the viewport: the offset moves inside 0..MaxYOffset,
\* and a viewport without content has nothing to scroll.
ScrollDown(v) ==
    IF v.content # Nil /\ v.yOffset < MaxYOffset
    THEN [v EXCEPT !.yOffset = @ + 1] ELSE v

ScrollUp(v) ==
    IF v.content # Nil /\ v.yOffset > 0
    THEN [v EXCEPT !.yOffset = @ - 1] ELSE v

\* key.Matches(msg, binding): a disabled binding matches no key.
Matches(md, k) == IF k \in RowKeys THEN md.RowKeyMap[k] ELSE md.KeyMap[k]

\* The branch of the key switch that binding k selects.
KeyBranch(md, k) ==
    LET sel == md.selectedRow
    IN  CASE k = "Left" -> [md EXCEPT !.rows[sel] = moveLeft(@)]
          [] k = "Right" -> [md EXCEPT !.rows[sel] = moveRight(@)]
          [] k = "ShowOutput" -> [md EXCEPT !.showOutput = ~@]
          [] k = "LineDown" ->
                LET m1 == LineDown(md)
                IN  [m1 EXCEPT !.rows[m1.selectedRow] = setSelected(@)]
          [] k = "LineUp" ->
                LET m1 == LineUp(md)
                IN  [m1 EXCEPT !.rows[m1.selectedRow] = setSelected(@)]
          [] k = "PageDownSummary" ->
                LET m1 == PageDown(md)
                IN  [m1 EXCEPT !.rows[m1.selectedRow] = setSelected(@)]
          [] k = "PageUpSummary" ->
                LET m1 == PageUp(md)
                IN  [m1 EXCEPT !.rows[m1.selectedRow] = setSelected(@)]
          [] k = "Quit" -> [md EXCEPT !.quit = TRUE]
          [] k = "Help" -> md    \* toggles Help.ShowAll of the help component
          [] k \in {"Down", "PageDown", "HalfPageDown"} ->
                [md EXCEPT !.defaultViewport = ScrollDown(@)]
          [] k \in {"Up", "PageUp", "HalfPageUp"} ->
                [md EXCEPT !.defaultViewport = ScrollUp(@)]

\* shouldSetActiveKeys and shouldUpdateOutput as the branch of k leaves them.
shouldSetActiveKeys(k) ==
    k \in {"Left", "Right", "ShowOutput", "LineDown", "LineUp",
           "PageDownSummary", "PageUpSummary"}

\* Mutant: only the column keys update the output.
shouldUpdateOutput_OnlyColumnKeys(md, k) == k \in {"Left", "Right"}

shouldUpdateOutput(md, k) ==
    \/ k \in {"Left", "Right"}
    \/ /\ k \in {"ShowOutput", "LineDown", "LineUp",
                 "PageDownSummary", "PageUpSummary"}
       /\ md.showOutput

\* Update(tea.KeyMsg): the matched branch, then SetActiveKeys, then the
\* viewport is loaded or the output pane is switched off.
KeyMsgUpdate(md, k) ==
    IF ~Matches(md, k) THEN md
    ELSE LET m1 == KeyBranch(md, k)
             m2 == IF shouldSetActiveKeys(k) THEN SetActiveKeys(m1) ELSE m1
         IN  IF shouldUpdateOutput(m1, k)
             THEN IF hasOutputToDisplay(m2.rows[m2.selectedRow])
                  THEN setOutput(m2)
                  ELSE [m2 EXCEPT !.showOutput = FALSE]
             ELSE m2

\* Mutant: the reported row is selected anew whether it is the selected row
\* or not.
TaskResultMsgUpdate_AlwaysSelects(md, msg) ==
    IF msg.Index \notin DOMAIN md.rows
    THEN Panicked(PanicIndex)
    ELSE LET u  == RowUpdate(md.rows[msg.Index], msg)
             m1 == [md EXCEPT
                      !.rows[msg.Index] = u.row,
                      !.statusCounts = updateStatusCounts(@, u.cur, u.prev)]
         IN  SetActiveKeys([m1 EXCEPT !.rows[msg.Index] = setSelected(@)])

\* Mutant: the event is routed to the row under the cursor.
TaskResultMsgUpdate_ToSelectedRow(md, msg) ==
    IF msg.Index \notin DOMAIN md.rows
    THEN Panicked(PanicIndex)
    ELSE LET sel == md.selectedRow
             u   == RowUpdate(md.rows[sel], msg)
             m1  == [md EXCEPT
                       !.rows[sel] = u.row,
                       !.statusCounts = updateStatusCounts(@, u.cur, u.prev)]
         IN  SetActiveKeys([m1 EXCEPT !.rows[sel] = setSelected(@)])

\* Update(TaskResultMsg): m.rows[msg.Index] is read without a bounds check.
TaskResultMsgUpdate(md, msg) ==
    IF msg.Index \notin DOMAIN md.rows
    THEN Panicked(PanicIndex)
    ELSE LET u  == RowUpdate(md.rows[msg.Index], msg)
             m1 == [md EXCEPT
                      !.rows[msg.Index] = u.row,
                      !.statusCounts = updateStatusCounts(@, u.cur, u.prev)]
         IN  IF msg.Index = md.selectedRow
             THEN SetActiveKeys([m1 EXCEPT !.rows[msg.Index] = setSelected(@)])
             ELSE m1

\* Update(tea.WindowSizeMsg)
WindowSizeMsgUpdate(md, width, height) ==
    [md EXCEPT !.termWidth = width,
               !.termHeight = height,
               !.defaultViewport =
                  SetDimensions(@, ViewportWidth(width),
                                ViewportHeight(height))]

----------------------------------------------------------------------------
(* The dashboard under verification and the messages it receives.          *)

DashColumns == [i \in 1..DashCols |-> ColName(i - 1)]

\* The task lists of the rows.  The first row has a task on both columns,
\* the second of which may run anyway for the first; a later row has a task
\* on the first column or on none.
DashTaskLists(k) ==
    IF k = 0
    THEN {<<NewTask(ColName(0), {}), NewTask(ColName(1), ra)>> :
             ra \in RunAnywayChoices(1)}
    ELSE {<<>>, <<NewTask(ColName(0), {})>>}

DashRows(k) == {NewRow("app", tasks, <<"type">>, DashColumns).row :
                   tasks \in DashTaskLists(k)}

\* The lists of 1..MaxRows rows, 0-based as the slice m.rows.
DashData ==
    UNION { {rows \in [0..(n - 1) -> UNION {DashRows(k) : k \in 0..(n - 1)}] :
                \A k \in 0..(n - 1) : rows[k] \in DashRows(k)} :
            n \in 1..MaxRows }

\* The events of the dashboard: what a worker reports about a task.  Skip is
\* the status NewRow gives a column without a task and no worker reports
\* it, ForceDefault "requires Output to be set", and the custom status only
\* changes how a Success is drawn.
DashEvents ==
    {e \in TaskResultMsgs :
        /\ e.Status # Skip
        /\ e.CustomSuccessStatus = NoCustom
        /\ e.ForceDefault => e.Output # Nil}

\* The output a worker sends for the task that is active in row i.
OutputOf(md, i) ==
    IF i \in DOMAIN md.rows
    THEN "out" \o ToString(i) \o ToString(md.rows[i].activeTaskIndex)
    ELSE "out"

\* The event for row i that carries what e carries.
DashMsg(md, i, e) ==
    [ Index               |-> i,
      Status              |-> e.Status,
      Output              |-> IF e.Output = Nil THEN Nil ELSE OutputOf(md, i),
      ForceDefault        |-> e.ForceDefault,
      CustomSuccessStatus |-> e.CustomSuccessStatus ]

Running == m.panic = NoPanic /\ ~m.quit

\* last in the dashboard: the type of the last message and, for a task
\* result, the row index it named.
NoEvent == [type |-> "none", Index |-> -1]

DashInit ==
    /\ \E rows \in DashData, pageSize \in PageSizes :
          m = NewModel(rows, DashColumns, <<"Scan Type">>, pageSize)
    /\ row = NoRow
    /\ ret = <<0, 0>>
    /\ last = NoEvent
    /\ cfg = NoCfg
    /\ data = NoData

KeyMsg(k) ==
    /\ Running
    /\ m' = KeyMsgUpdate(m, k)
    /\ last' = [type |-> "KeyMsg", Index |-> -1]
    /\ UNCHANGED <<row, ret, cfg, data>>

TaskResultMsg(i, e) ==
    /\ Running
    /\ m' = TaskResultMsgUpdate(m, DashMsg(m, i, e))
    /\ last' = [type |-> "TaskResultMsg", Index |-> i]
    /\ UNCHANGED <<row, ret, cfg, data>>

WindowSizeMsg(width, height) ==
    /\ Running
    /\ m' = WindowSizeMsgUpdate(m, width, height)
    /\ last' = [type |-> "WindowSizeMsg", Index |-> -1]
    /\ UNCHANGED <<row, ret, cfg, data>>

DashNext ==
    \/ \E k \in Keys : KeyMsg(k)
    \/ \E i \in 0..MaxRows, e \in DashEvents : TaskResultMsg(i, e)
    \/ \E size \in WindowSizes : WindowSizeMsg(size[1], size[2])

SpecDash == DashInit /\ [][DashNext]_vars

DashTypeOK ==
    m.panic = NoPanic =>
    /\ m.selectedRow \in 0..(MaxRows - 1)
    /\ m.showOutput \in BOOLEAN
    /\ \A k \in DOMAIN m.rows : m.rows[k].status \in RowStatuses
    /\ DOMAIN m.statusCounts \subseteq RowStatuses
    /\ m.defaultViewport.yOffset \in 0..MaxYOffset

----------------------------------------------------------------------------
(* Construction of a dashboard from its arguments.                         *)

\* The column lists: the first n column names, for the task columns given
\* to WithTasks and for the columns given to NewRow.
NewColumnLists == {[i \in 1..n |-> ColName(i - 1)] : n \in 0..MaxNewCols}

\* The prefix columns given to WithPrefixColumns and the prefix values of a
\* row: only their number is read.
NewPrefixLists == {[i \in 1..n |-> "type"] : n \in 0..MaxPrefix}

\* The tasks a row may be supplied with: one per column name, which may run
\* anyway for the columns before it, and one whose name is no column's.
NewTaskChoices ==
    {NewTask(ColName(i), {ColName(j) : j \in 0..(i - 1)}) :
        i \in 0..(MaxNewCols - 1)}
    \cup {NewTask("unknown", {})}

\* The lists of supplied tasks: up to MaxSupplied tasks of different names.
NewTaskLists ==
    UNION { {l \in [1..n -> NewTaskChoices] :
                \A i, j \in 1..n : i # j => l[i] # l[j]} :
            n \in 0..MaxSupplied }

\* The arguments of one NewRow call.
NewRowArgs ==
    [tasks : NewTaskLists, prefixValues : NewPrefixLists,
     columns : NewColumnLists]

\* The arguments a dashboard is constructed from.
NewConfigs ==
    [taskColumns   : NewColumnLists,
     prefixColumns : NewPrefixLists,
     rows          : UNION {[1..n -> NewRowArgs] : n \in 0..MaxNewRows}]

\* The caller builds its rows with NewRow, one after the other from the k-th
\* on; the first panic ends the program.
RECURSIVE BuildRows(_, _, _)
BuildRows(args, k, rows) ==
    IF k > Len(args) THEN [panic |-> NoPanic, rows |-> rows]
    ELSE LET r == NewRow("app", args[k].tasks, args[k].prefixValues,
                         args[k].columns)
         IN  IF r.panic # NoPanic THEN [panic |-> r.panic]
             ELSE BuildRows(args, k + 1,
                            [i \in 0..(k - 1) |->
                                IF i = k - 1 THEN r.row ELSE rows[i]])

NewInit ==
    /\ cfg \in NewConfigs
    /\ data = NoData
    /\ m = NoModel
    /\ row = NoRow
    /\ ret = <<0, 0>>
    /\ last = NoMsg

\* The NewRow calls of the caller.
NewRows ==
    /\ data = NoData
    /\ data' = BuildRows(cfg.rows, 1, <<>>)
    /\ UNCHANGED <<row, ret, last, cfg, m>>

\* NewModel(WithData(rows...), WithTasks(...), WithPrefixColumns(...))
Construct ==
    /\ data # NoData
    /\ data.panic = NoPanic
    /\ m = NoModel
    /\ m' = NewModel(data.rows, cfg.taskColumns, cfg.prefixColumns,
                     defaultPageSize)
    /\ UNCHANGED <<row, ret, last, cfg, data>>

NewNext == NewRows \/ Construct

SpecNew == NewInit /\ [][NewNext]_vars

NewTypeOK ==
    /\ data.panic \in {NoPanic, PanicNoColumns, PanicTaskName}
    /\ m.panic \in {NoPanic, PanicValidate, PanicIndex}

----------------------------------------------------------------------------
(* Vocabulary of the properties.                                           *)

InProgressIndexes(r) ==
    {k \in DOMAIN r.tasks : r.tasks[k].status = InProgress}

\* The tasks after the active one that are NotStarted and whose run-anyway
\* list names the active task.
RunAnywayAfter(r) ==
    {k \in DOMAIN r.tasks :
        /\ k > r.activeTaskIndex
        /\ r.tasks[k].status = NotStarted
        /\ r.tasks[r.activeTaskIndex].name \in r.tasks[k].shouldRunAnywayFor}

\* The tasks after the active one that are NotStarted.
NotStartedAfter(r) ==
    {k \in DOMAIN r.tasks :
        k > r.activeTaskIndex /\ r.tasks[k].status = NotStarted}

\* update(msg) is applied to a RowStarted row and msg reports Failure.
FailureUpdate(msg) ==
    /\ row.status = RowStarted
    /\ msg.Status = Failure
    /\ Update(msg)

----------------------------------------------------------------------------
\* C1: in every reachable state of a row at most one task is InProgress.
C1_AtMostOneInProgress == Cardinality(InProgressIndexes(row)) <= 1

C3_RestSkipped ==
    [][\A msg \in TaskResultMsgs :
          FailureUpdate(msg) =>
             \A k \in NotStartedAfter(row) :
                row'.tasks[k].status =
                   IF RunAnywayAfter(row) # {} /\ k = Min(RunAnywayAfter(row))
                   THEN InProgress ELSE Skip]_vars

\* C4: the run-anyway decision of a Failure is a membership test of the name
\* of the task that failed: a later NotStarted task whose list has the name
\* is not set to Skip, and one whose list lacks the name is not started.
C4_MembershipOfFailedTask ==
    [][\A msg \in TaskResultMsgs :
          FailureUpdate(msg) =>
             \A k \in NotStartedAfter(row) :
                IF k \in RunAnywayAfter(row)
                THEN row'.tasks[k].status # Skip
                ELSE row'.tasks[k].status # InProgress]_vars

\* C5: a done row is RowFailure if any task is Failure, otherwise RowWarning
\* if any task is Warning, otherwise RowSuccess.
C5_FailureAnywhereForcesRowFailure ==
    row.status \in TerminalRowStatuses =>
       row.status =
          IF \E k \in DOMAIN row.tasks : row.tasks[k].status = Failure
          THEN RowFailure
          ELSE IF \E k \in DOMAIN row.tasks : row.tasks[k].status = Warning
          THEN RowWarning
          ELSE RowSuccess

C7_UpdateOnNotStartedRowIsNoOp ==
    row.status # RowStarted =>
       \A msg \in TaskResultMsgs :
          LET u == RowUpdate(row, msg)
          IN  /\ u.row = row
              /\ <<u.prev, u.cur>> = <<row.status, row.status>>

\* C7 witness: a result was sent to a finished row that holds output.
C7_Witness ==
    /\ ret[1] \in TerminalRowStatuses
    /\ ret[2] = ret[1]
    /\ last.Status \in {Success, Warning, Failure}
    /\ \E k \in DOMAIN row.tasks : row.tasks[k].hasOutput

\* C8: in every reachable state where the row is RowStarted, update() with
\* status InProgress or NotStarted changes nothing of the row, whatever else
\* the event carries.
C8_InProgressOrNotStartedEventIsNoOp ==
    row.status = RowStarted =>
       \A msg \in TaskResultMsgs :
          msg.Status \in {InProgress, NotStarted} =>
             RowUpdate(row, msg).row = row

\* C8 witness: such an event was sent to a started row that holds output.
C8_Witness ==
    /\ row.status = RowStarted
    /\ ret = <<RowStarted, RowStarted>>
    /\ last.Status \in {InProgress, NotStarted}
    /\ \E k \in DOMAIN row.tasks : row.tasks[k].hasOutput

\* C9: the row status only moves RowNotStarted -> RowStarted or RowSuccess
\* (in start) and RowStarted -> RowSuccess, RowWarning or RowFailure (in
\* update); a finished row never changes its status or its tasks again.
C9_RowStatusMovesForward ==
    [][/\ (row.status = RowNotStarted /\ row'.status # RowNotStarted) =>
             (Start /\ row'.status \in {RowStarted, RowSuccess})
       /\ (row.status = RowStarted /\ row'.status # RowStarted) =>
             /\ \E msg \in TaskResultMsgs : Update(msg)
             /\ row'.status \in TerminalRowStatuses
       /\ row.status \in TerminalRowStatuses =>
             (row'.status = row.status /\ row'.tasks = row.tasks)]_vars

\* C9 witness: a finished row has received a further result and its output
\* selection has been moved.
C9_Witness ==
    /\ row.status \in TerminalRowStatuses
    /\ ret[1] \in TerminalRowStatuses
    /\ row.selectedTaskIndex >= 0
    /\ row.selectedTaskIndex # row.defaultTaskIndex

\* C10: a task status changes only NotStarted -> InProgress, InProgress ->
\* Success, Warning or Failure, or NotStarted -> Skip.
C10_TaskStatusTransitions ==
    [][\A k \in DOMAIN row.tasks :
          row'.tasks[k].status # row.tasks[k].status =>
             \/ /\ row.tasks[k].status = NotStarted
                /\ row'.tasks[k].status \in {InProgress, Skip}
             \/ /\ row.tasks[k].status = InProgress
                /\ row'.tasks[k].status \in {Success, Warning, Failure}]_vars

\* C11: start() on a RowNotStarted row sets the lowest-index NotStarted task
\* InProgress, records it as activeTaskIndex and sets the row RowStarted,
\* leaving every other task as it was; with no NotStarted task the row is
\* RowSuccess at once and no task is InProgress; on a row that is not
\* RowNotStarted start() changes nothing.
C11_StartStartsFirstNotStarted ==
    [][Start =>
         IF row.status # RowNotStarted THEN row' = row
         ELSE IF \E k \in DOMAIN row.tasks : row.tasks[k].status = NotStarted
         THEN \E k \in DOMAIN row.tasks :
                 /\ row.tasks[k].status = NotStarted
                 /\ \A j \in DOMAIN row.tasks :
                       j < k => row.tasks[j].status # NotStarted
                 /\ row'.tasks[k].status = InProgress
                 /\ row'.activeTaskIndex = k
                 /\ row'.status = RowStarted
                 /\ \A j \in DOMAIN row.tasks :
                       j # k => row'.tasks[j] = row.tasks[j]
         ELSE /\ row'.status = RowSuccess
              /\ InProgressIndexes(row') = {}
              /\ row'.tasks = row.tasks]_vars

\* C11 witness: start() has run on a row whose first column is Skip: the
\* second task is InProgress and active, and a later task is still NotStarted.
C11_Witness ==
    /\ last = NoMsg
    /\ row.status = RowStarted
    /\ row.tasks[0].status = Skip
    /\ row.activeTaskIndex = 1
    /\ row.tasks[1].status = InProgress
    /\ \E k \in DOMAIN row.tasks : k > 1 /\ row.tasks[k].status = NotStarted

\* C12: when update() receives Success or Warning for the active task of a
\* RowStarted row, the nearest later NotStarted task becomes InProgress and
\* the active task, every other task after the finished one (the Skip tasks
\* in between and all tasks after the started one) is unchanged and the row
\* stays RowStarted; with no later NotStarted task the row becomes done.
C12_SuccessStartsNextNotStarted ==
    row.status = RowStarted =>
       \A msg \in TaskResultMsgs :
          msg.Status \in {Success, Warning} =>
             LET u == RowUpdate(row, msg)
                 a == row.activeTaskIndex
             IN  /\ u.row.tasks[a].status = msg.Status
                 /\ IF NotStartedAfter(row) # {}
                    THEN LET j == Min(NotStartedAfter(row))
                         IN  /\ u.row.tasks[j].status = InProgress
                             /\ u.row.activeTaskIndex = j
                             /\ \A k \in DOMAIN row.tasks :
                                   (k > a /\ k # j)
                                      => u.row.tasks[k] = row.tasks[k]
                             /\ u.row.status = RowStarted
                             /\ u.cur = RowStarted
                    ELSE /\ u.row.status \in TerminalRowStatuses
                         /\ u.cur = u.row.status

\* C12 witness: a Success or Warning has just been processed, the finished
\* task is followed by a Skip task, and the task after that is InProgress and
\* active in a row that is still RowStarted.
C12_Witness ==
    /\ last.Status \in {Success, Warning}
    /\ ret = <<RowStarted, RowStarted>>
    /\ \E i, s, j \in DOMAIN row.tasks :
          /\ i < s /\ s < j
          /\ row.tasks[i].status = last.Status
          /\ row.tasks[s].status = Skip
          /\ row.tasks[j].status = InProgress
          /\ row.activeTaskIndex = j

\* C18: an accepted event that carries output moves the default display task
\* in priority order: ForceDefault makes the active task the default; else,
\* with no default set or a default task whose status is Success, the active
\* task becomes the default; else the active task becomes the default only if
\* the event is Failure or Warning and the default task is neither Failure
\* nor Warning; otherwise, and for every event without output, the default
\* stays.
C18_DefaultDisplayTaskPriority ==
    row.status = RowStarted =>
       \A msg \in TaskResultMsgs :
          LET u == RowUpdate(row, msg).row
              a == row.activeTaskIndex
              d == row.defaultTaskIndex
          IN  u.defaultTaskIndex =
                 IF IgnoredStatus(msg) \/ msg.Output = Nil THEN d
                 ELSE IF msg.ForceDefault THEN a
                 ELSE IF d < 0 THEN a
                 ELSE IF row.tasks[d].status = Success THEN a
                 ELSE IF msg.Status \in {Failure, Warning}
                         /\ row.tasks[d].status \notin {Failure, Warning}
                 THEN a
                 ELSE d

\* C18 witness: a Warning with output has just been processed and the default
\* is still the earlier task that failed with output.
C18_Witness ==
    /\ last.Status = Warning
    /\ \E d, k \in DOMAIN row.tasks :
          /\ d < k
          /\ row.defaultTaskIndex = d
          /\ row.tasks[d].status = Failure
          /\ row.tasks[d].hasOutput
          /\ row.tasks[k].status = Warning
          /\ row.tasks[k].hasOutput

\* C17: NewRow with non-empty columns, when it returns, returns a
\* RowNotStarted row with one task per column in column order: task i has
\* the name of column i and is the supplied task of that name, with status
\* NotStarted, if one was supplied and is Skip otherwise; defaultTaskIndex
\* and selectedTaskIndex are -1.  It returns unless a supplied task has the
\* name of no column.
C17_NewRowOneTaskPerColumn ==
    data # NoData =>
       /\ data.panic = NoPanic =>
             \A k \in DOMAIN cfg.rows :
                LET in == cfg.rows[k]
                    r  == data.rows[k - 1]
                IN  /\ r.status = RowNotStarted
                    /\ DOMAIN r.tasks = 0..(Len(in.columns) - 1)
                    /\ \A i \in DOMAIN r.tasks :
                          LET given == {j \in DOMAIN in.tasks :
                                           in.tasks[j].name = in.columns[i + 1]}
                          IN  /\ r.tasks[i].name = in.columns[i + 1]
                              /\ IF given # {}
                                 THEN /\ \E j \in given :
                                            r.tasks[i] = in.tasks[j]
                                      /\ r.tasks[i].status = NotStarted
                                 ELSE r.tasks[i].status = Skip
                    /\ r.defaultTaskIndex = -1
                    /\ r.selectedTaskIndex = -1
       /\ data.panic # NoPanic =>
             \E k \in DOMAIN cfg.rows :
                \/ Len(cfg.rows[k].columns) = 0
                \/ \E j \in DOMAIN cfg.rows[k].tasks :
                      \A i \in DOMAIN cfg.rows[k].columns :
                         cfg.rows[k].tasks[j].name # cfg.rows[k].columns[i]

\* C17 witness: NewRow has returned a row of two columns that was supplied
\* with a task for the second column only: the first task is Skip and the
\* second is the supplied task with its run-anyway list.
C17_Witness ==
    /\ data # NoData
    /\ data.panic = NoPanic
    /\ \E k \in DOMAIN cfg.rows :
          /\ Len(cfg.rows[k].columns) = 2
          /\ Len(cfg.rows[k].tasks) = 1
          /\ data.rows[k - 1].tasks[0].status = Skip
          /\ data.rows[k - 1].tasks[1] = cfg.rows[k].tasks[1]
          /\ data.rows[k - 1].tasks[1].shouldRunAnywayFor = {ColName(0)}

\* Construction has ended: a NewRow call has panicked or NewModel has run.
Constructed == data.panic # NoPanic \/ m # NoModel
ConstructionFailed == data.panic # NoPanic \/ m.panic # NoPanic

\* C15: a dashboard constructed with zero rows is constructed without
\* failure (and then processes key presses and window sizes).
C15_ZeroRowsConstructs ==
    (Len(cfg.rows) = 0 /\ Constructed) => ~ConstructionFailed

\* A row of the arguments does not fit the declared columns: its number of
\* tasks (one per column it was built with) or of prefix values differs from
\* the declaration, or one of its supplied tasks has the name of no column.
RowMismatch(k) ==
    LET in == cfg.rows[k]
    IN  \/ Len(in.columns) # Len(cfg.taskColumns)
        \/ Len(in.prefixValues) # Len(cfg.prefixColumns)
        \/ \E j \in DOMAIN in.tasks :
              \A i \in DOMAIN in.columns :
                 in.tasks[j].name # in.columns[i]

\* C16: construction fails whenever some row's task count differs from the
\* number of task columns, or its prefix-value count from the number of
\* prefix columns, or a supplied task's name matches no column name; it
\* succeeds only when no row is like that.
C16_MismatchFailsConstruction ==
    (Constructed /\ \E k \in DOMAIN cfg.rows : RowMismatch(k))
       => ConstructionFailed

\* The rows of md whose status is s, and the count the map gives for s.
RowsWithStatus(md, s) == {k \in DOMAIN md.rows : md.rows[k].status = s}
CountOf(md, s) == IF s \in DOMAIN md.statusCounts THEN md.statusCounts[s] ELSE 0

\* The count map holds, for each row status, exactly the number of rows of
\* that status, and no entry for a status without rows.
CountsMatchRows(md) ==
    md.panic = NoPanic =>
       /\ \A s \in RowStatuses :
             IF RowsWithStatus(md, s) = {}
             THEN s \notin DOMAIN md.statusCounts
             ELSE /\ s \in DOMAIN md.statusCounts
                  /\ md.statusCounts[s] = Cardinality(RowsWithStatus(md, s))
       /\ DOMAIN md.statusCounts \subseteq RowStatuses

\* C13: after construction and after every event and key press the count map
\* holds for each row status exactly the number of rows of that status, has
\* no entry for a status without rows, and so sums to the number of rows;
\* and a task-result event takes one off the bucket of the status the row
\* had before and adds one to the bucket of the status it has after.
C13_StatusCountsMatchRows ==
    /\ CountsMatchRows(m)
    /\ [][/\ CountsMatchRows(m')
          /\ (m'.panic = NoPanic /\ last'.type = "TaskResultMsg") =>
                LET prev == m.rows[last'.Index].status
                    cur  == m'.rows[last'.Index].status
                IN  \A s \in RowStatuses :
                       CountOf(m', s) =
                          CountOf(m, s) - (IF s = prev THEN 1 ELSE 0)
                                        + (IF s = cur THEN 1 ELSE 0)]_vars

\* C13 witness: an event has just finished the last running row: one row is
\* RowFailure, the other RowSuccess, and the map holds exactly these two
\* buckets, the RowStarted bucket having been removed.
C13_Witness ==
    /\ m.panic = NoPanic
    /\ last.type = "TaskResultMsg"
    /\ \E i, j \in DOMAIN m.rows :
          /\ m.rows[i].status = RowFailure
          /\ m.rows[j].status = RowSuccess
    /\ DOMAIN m.statusCounts = {RowSuccess, RowFailure}
    /\ m.statusCounts[RowFailure] = 1
    /\ m.statusCounts[RowSuccess] = 1

\* C14: a task-result event whose row index is outside 0..(number of rows
\* - 1) is silently ignored: processing it does not fail and changes no
\* row, count, selection or key enablement.
C14_OutOfRangeEventIgnored ==
    [][(/\ m.panic = NoPanic
        /\ last'.type = "TaskResultMsg"
        /\ last'.Index \notin DOMAIN m.rows)
          => (m'.panic = NoPanic /\ m' = m)]_vars

\* Some task of the row has output.
HasAnyOutput(r) == \E k \in DOMAIN r.tasks : r.tasks[k].hasOutput

\* C19: after a task-result event for the selected row the row's
\* selectedTaskIndex equals its defaultTaskIndex whenever the row has any
\* output, whatever was selected with left/right before; without output the
\* selection is what it was; and the key enablement is the one SetActiveKeys
\* computes from the resulting state.
C19_EventOnSelectedRowResetsSelection ==
    Running =>
       \A e \in DashEvents :
          LET sel == m.selectedRow
              u   == TaskResultMsgUpdate(m, DashMsg(m, sel, e))
          IN  /\ u.panic = NoPanic
              /\ IF HasAnyOutput(u.rows[sel])
                 THEN u.rows[sel].selectedTaskIndex
                         = u.rows[sel].defaultTaskIndex
                 ELSE u.rows[sel].selectedTaskIndex
                         = m.rows[sel].selectedTaskIndex
              /\ SetActiveKeys(u) = u

\* C19 witness: with the output pane open on a row that has output on two
\* tasks, an event for that row has just been processed: the default task is
\* selected and navigate-right is enabled.
C19_Witness ==
    /\ Running
    /\ last.type = "TaskResultMsg"
    /\ last.Index = m.selectedRow
    /\ m.showOutput
    /\ LET r == m.rows[m.selectedRow]
       IN  /\ r.tasks[0].hasOutput
           /\ r.tasks[1].hasOutput
           /\ r.defaultTaskIndex = 0
           /\ r.selectedTaskIndex = 0
           /\ m.RowKeyMap.Right

\* C20: after every processed event navigate-left is enabled iff the output
\* pane is shown and the selected row has a task with output at an index
\* below its selectedTaskIndex, navigate-right is enabled iff the pane is
\* shown and a task with output is at an index above it, and toggle-output
\* is enabled iff the selected row has any output.
C20_RowKeysFollowSelection ==
    m.panic = NoPanic =>
       LET r == m.rows[m.selectedRow]
       IN  /\ m.RowKeyMap.Left <=>
                 (m.showOutput /\ \E k \in DOMAIN r.tasks :
                                     k < r.selectedTaskIndex
                                        /\ r.tasks[k].hasOutput)
           /\ m.RowKeyMap.Right <=>
                 (m.showOutput /\ \E k \in DOMAIN r.tasks :
                                     k > r.selectedTaskIndex
                                        /\ r.tasks[k].hasOutput)
           /\ m.RowKeyMap.ShowOutput <=> HasAnyOutput(r)

\* C20 witness: a key press has just been processed with the pane open on a
\* row that has output on both tasks: the second task is selected, so
\* navigate-left is enabled and navigate-right is not.
C20_Witness ==
    /\ Running
    /\ last.type = "KeyMsg"
    /\ m.showOutput
    /\ LET r == m.rows[m.selectedRow]
       IN  /\ r.tasks[0].hasOutput
           /\ r.tasks[1].hasOutput
           /\ r.selectedTaskIndex = 1
           /\ r.defaultTaskIndex = 0
    /\ m.RowKeyMap.Left
    /\ ~m.RowKeyMap.Right
    /\ m.RowKeyMap.ShowOutput

\* The bindings that scroll the output pane.
ScrollKeys ==
    {"Down", "Up", "PageDown", "PageUp", "HalfPageDown", "HalfPageUp"}

\* C21: after every processed event each command that scrolls the output
\* pane (line, half page and full page, up and down) is enabled iff the
\* output pane is shown, also after the row cursor has moved from a row with
\* output to a row without output while the pane was open.
C21_ScrollKeysFollowPane ==
    m.panic = NoPanic =>
       \A k \in ScrollKeys : m.KeyMap[k] <=> m.showOutput

----------------------------------------------------------------------------
(* GetPaginationDetails applied to the arguments a caller may pass.        *)

MaxTotalElements == 13
MaxElementsPerPage == 7

\* The arguments: at least one element, at least one element per page and
\* the index of an element.
PaginationArgs ==
    {a \in [totalElements       : 1..MaxTotalElements,
            elementsPerPage     : 1..MaxElementsPerPage,
            currentElementIndex : 0..(MaxTotalElements - 1)] :
        a.currentElementIndex < a.totalElements}

PaginateInit ==
    /\ cfg \in PaginationArgs
    /\ data = NoData
    /\ m = NoModel
    /\ row = NoRow
    /\ ret = <<0, 0>>
    /\ last = NoMsg

\* The call GetPaginationDetails(totalElements, elementsPerPage,
\* currentElementIndex); data holds what it returns.
Paginate ==
    /\ data = NoData
    /\ data' = GetPaginationDetails(cfg.totalElements, cfg.elementsPerPage,
                                    cfg.currentElementIndex)
    /\ UNCHANGED <<row, ret, last, cfg, m>>

PaginateNext == Paginate

SpecPaginate == PaginateInit /\ [][PaginateNext]_vars

\* C22: for totalElements >= 1, elementsPerPage >= 1 and an index of an
\* element, GetPaginationDetails returns numPages = ceil(total / perPage),
\* pageStart = floor(index / perPage) * perPage, pageEnd = min(pageStart +
\* perPage - 1, total - 1) and currentPage = pageStart / perPage, so that
\* pageStart <= index <= pageEnd and currentPage < numPages; for (13, 6, 7)
\* it returns (3, 1, 6, 11).
C22_PaginationDetails ==
    data # NoData =>
       LET total == cfg.totalElements
           size  == cfg.elementsPerPage
           cur   == cfg.currentElementIndex
           floor == CHOOSE q \in 0..cur :
                       q * size <= cur /\ cur < (q + 1) * size
           ceil  == CHOOSE n \in 1..total :
                       (n - 1) * size < total /\ total <= n * size
       IN  /\ data.numPages = ceil
           /\ data.pageStartIndex = floor * size
           /\ data.pageEndIndex =
                 Min({data.pageStartIndex + size - 1, total - 1})
           /\ data.currentPage * size = data.pageStartIndex
           /\ data.pageStartIndex <= cur
           /\ cur <= data.pageEndIndex
           /\ data.currentPage < data.numPages
           /\ (total = 13 /\ size = 6 /\ cur = 7) =>
                 data = [numPages |-> 3, currentPage |-> 1,
                         pageStartIndex |-> 6, pageEndIndex |-> 11]

\* C22 witness: the call with (13, 6, 7) has returned the second of three
\* pages, a full page that is not the last one.
C22_Witness ==
    /\ data # NoData
    /\ cfg = [totalElements |-> 13, elementsPerPage |-> 6,
              currentElementIndex |-> 7]
    /\ data.currentPage = 1
    /\ data.numPages = 3
    /\ data.pageEndIndex = 11

----------------------------------------------------------------------------
(* A dashboard of several pages: the summary table under the cursor keys.  *)

MaxPagedRows == 7
MaxPagedSize == 3

\* A row of the paged dashboard: a task on the first column, none on the
\* second.
PagedRow == NewRow("app", <<NewTask(ColName(0), {})>>, <<"type">>,
                   DashColumns).row

\* What the worker of the first row reports in the paged dashboard: the
\* success of the task, with its output.
PagedEvent ==
    [ Status |-> Success, Output |-> "out", ForceDefault |-> FALSE,
      CustomSuccessStatus |-> NoCustom ]

\* WithPageSize takes any int and keeps max(pageSize, 1).
PagedInit ==
    /\ \E n \in 1..MaxPagedRows, pageSize \in 0..MaxPagedSize :
          m = NewModel([k \in 0..(n - 1) |-> PagedRow], DashColumns,
                       <<"Scan Type">>, pageSize)
    /\ row = NoRow
    /\ ret = <<0, 0>>
    /\ last = NoEvent
    /\ cfg = NoCfg
    /\ data = NoData

PagedNext ==
    \/ \E k \in Keys : KeyMsg(k)
    \/ TaskResultMsg(0, PagedEvent)
    \/ \E size \in WindowSizes : WindowSizeMsg(size[1], size[2])

SpecPaged == PagedInit /\ [][PagedNext]_vars

\* The page window of a dashboard as a pair.
PageWindow(md) == <<md.pageCurrentStart, md.pageCurrentEnd>>

\* The pagination of the selected row of a dashboard.
SelectedPage(md) ==
    GetPaginationDetails(NumTasks(md.rows), md.pageSize, md.selectedRow)

\* C23: with at least one row, in every reachable state the page window is
\* the (pageStart, pageEnd) that GetPaginationDetails(number of rows,
\* pageSize, selectedRow) returns, hence 0 <= pageCurrentStart <=
\* selectedRow <= pageCurrentEnd <= number of rows - 1, after any sequence
\* of line up, line down, page up and page down.
C23_PageWindowFollowsSelection ==
    m.panic = NoPanic =>
       /\ PageWindow(m) = <<SelectedPage(m).pageStartIndex,
                            SelectedPage(m).pageEndIndex>>
       /\ 0 <= m.pageCurrentStart
       /\ m.pageCurrentStart <= m.selectedRow
       /\ m.selectedRow <= m.pageCurrentEnd
       /\ m.pageCurrentEnd <= NumTasks(m.rows) - 1

\* C23 witness: a key has just been processed and the cursor is on the
\* short last page of seven rows in pages of three.
C23_Witness ==
    /\ last.type = "KeyMsg"
    /\ NumTasks(m.rows) = 7
    /\ m.pageSize = 3
    /\ m.selectedRow = 6
    /\ PageWindow(m) = <<6, 6>>

\* C24: LineDown moves selectedRow to selectedRow + 1 unless it is the last
\* row, where selectedRow and the page window stay as they are; LineUp
\* moves to selectedRow - 1 unless it is row 0, where nothing changes; the
\* cursor never wraps around.  The line-down and line-up keys do the same.
C24_LineMovesClampAtEnds ==
    m.panic = NoPanic =>
       LET sel    == m.selectedRow
           down   == IF sel = NumTasks(m.rows) - 1 THEN sel ELSE sel + 1
           up     == IF sel = 0 THEN sel ELSE sel - 1
           dnKey  == KeyMsgUpdate(m, "LineDown")
           upKey  == KeyMsgUpdate(m, "LineUp")
       IN  /\ LineDown(m).selectedRow = down
           /\ LineUp(m).selectedRow = up
           /\ dnKey.selectedRow = down
           /\ upKey.selectedRow = up
           /\ sel = NumTasks(m.rows) - 1 =>
                 (LineDown(m) = m /\ PageWindow(dnKey) = PageWindow(m))
           /\ sel = 0 =>
                 (LineUp(m) = m /\ PageWindow(upKey) = PageWindow(m))

\* C24 witness: line-down keys have brought the cursor to the last of
\* several rows, on a later page, and the line-down key is switched off.
C24_Witness ==
    /\ last.type = "KeyMsg"
    /\ NumTasks(m.rows) = 5
    /\ m.pageSize = 2
    /\ m.selectedRow = 4
    /\ PageWindow(m) = <<4, 4>>
    /\ ~m.KeyMap.LineDown
    /\ m.KeyMap.LineUp

\* C25: a page down that is not on the last page, or a page up that is not
\* on the first page, shifts the start of the page window by exactly
\* pageSize rows and puts the selected row on the first row of the new
\* window; page down on the last page and page up on the first page leave
\* selectedRow and the page window as they are.  The page keys of the
\* summary do the same.
C25_PageMovesByPageSize ==
    m.panic = NoPanic =>
       LET p     == SelectedPage(m)
           dn    == PageDown(m)
           up    == PageUp(m)
           dnKey == KeyMsgUpdate(m, "PageDownSummary")
           upKey == KeyMsgUpdate(m, "PageUpSummary")
       IN  /\ IF p.currentPage < p.numPages - 1
              THEN /\ dn.pageCurrentStart = m.pageCurrentStart + m.pageSize
                   /\ dn.selectedRow = dn.pageCurrentStart
              ELSE dn = m
           /\ IF p.currentPage > 0
              THEN /\ up.pageCurrentStart = m.pageCurrentStart - m.pageSize
                   /\ up.selectedRow = up.pageCurrentStart
              ELSE up = m
           /\ dnKey.selectedRow = dn.selectedRow
           /\ PageWindow(dnKey) = PageWindow(dn)
           /\ upKey.selectedRow = up.selectedRow
           /\ PageWindow(upKey) = PageWindow(up)

\* C25 witness: a key has just put the cursor on the first row of the
\* middle page of seven rows in pages of three, from where both a page down
\* and a page up move the window.
C25_Witness ==
    /\ last.type = "KeyMsg"
    /\ NumTasks(m.rows) = 7
    /\ m.pageSize = 3
    /\ m.selectedRow = 3
    /\ PageWindow(m) = <<3, 5>>

\* C26: moveLeft sets selectedTaskIndex to the greatest index below it whose
\* task has output and moveRight to the least index above it whose task has
\* output, skipping the tasks without output; when there is no such task
\* selectedTaskIndex keeps its value (no wraparound); nothing else of the
\* row changes.
C26_MoveSelectsNearestOutput ==
    LET sel   == row.selectedTaskIndex
        out   == {k \in DOMAIN row.tasks : row.tasks[k].hasOutput}
        below == {k \in out : k < sel}
        above == {k \in out : k > sel}
        l     == moveLeft(row).selectedTaskIndex
        r     == moveRight(row).selectedTaskIndex
    IN  /\ IF below = {} THEN l = sel
           ELSE l \in below /\ \A k \in below : k <= l
        /\ IF above = {} THEN r = sel
           ELSE r \in above /\ \A k \in above : r <= k
        /\ moveLeft(row) = [row EXCEPT !.selectedTaskIndex = l]
        /\ moveRight(row) = [row EXCEPT !.selectedTaskIndex = r]

\* C26 witness: the first task is selected in a row whose first and third
\* tasks have output and whose second has none, and the third is the
\* default one: the selection has moved left over the second task.
C26_Witness ==
    /\ NumTasks(row.tasks) = 3
    /\ row.tasks[0].hasOutput
    /\ ~row.tasks[1].hasOutput
    /\ row.tasks[2].hasOutput
    /\ row.defaultTaskIndex = 2
    /\ row.selectedTaskIndex = 0

----------------------------------------------------------------------------
(* The output viewer: DefaultViewport over the viewport component.  The    *)
(* dashboard above keeps of its viewer only what Update reads and writes;  *)
(* here the viewer is modelled with its lines and its scrollbar flag.  The *)
(* viewport component is described by the specification of the output     *)
(* viewer: it wraps a text at a width, shows a window of Height lines from *)
(* line YOffset on and clamps scrolling.                                   *)

MaxTermWidth == 7
MaxTermHeight == 10
MaxChars == 8

\* The terminal sizes: the viewport gets 0.6 of the width and 0.3 of the
\* height, at least one column and one line.
TermWidths == 2..MaxTermWidth
TermHeights == 4..MaxTermHeight

\* The inputData handed to the viewer: a string, given by its number of
\* characters (a text without line breaks), or a value that is no string.
NotAString == [isString |-> FALSE, chars |-> 0]
InputData ==
    {[isString |-> TRUE, chars |-> n] : n \in 1..MaxChars} \cup {NotAString}

\* viewport.Model before viewport.New: the zero value.
ZeroViewport == [Width |-> 0, Height |-> 0, YOffset |-> 0, chars |-> 0,
                 lines |-> 0]

\* viewport.New(width, height)
viewportNew(width, height) ==
    [ZeroViewport EXCEPT !.Width = width, !.Height = height]

\* viewport.Model.SetContent
viewportSetContent(vp, chars) == [vp EXCEPT !.chars = chars]

\* viewport.Model.SetWrappedLines(width): the text cut into lines of at most
\* width characters.
SetWrappedLines(vp, width) ==
    [vp EXCEPT !.lines = (vp.chars + width - 1) \div width]

\* viewport.Model.TotalLineCount and VisibleLineCount: the wrapped lines,
\* and those of them inside the window.
TotalLineCount(vp) == vp.lines
VisibleLineCount(vp) ==
    Max({0, Min({vp.Height, vp.lines - vp.YOffset})})

\* Scrolling is clamped: up to line 0, down to the last full window.
viewportLineDown(vp, n) ==
    [vp EXCEPT !.YOffset = Max({@, Min({@ + n, vp.lines - vp.Height})})]

viewportLineUp(vp, n) == [vp EXCEPT !.YOffset = Max({0, @ - n})]

\* &DefaultViewport{}
ZeroDefaultViewport ==
    [ hasBeenInitialized  |-> FALSE,
      shouldShowScrollBar |-> FALSE,
      viewport            |-> ZeroViewport ]

\* DefaultViewport.SetDimensions: the two fields are assigned, nothing else.
DefaultViewportSetDimensions(d, width, height) ==
    [d EXCEPT !.viewport.Width = width, !.viewport.Height = height]

\* DefaultViewport.SetContent: a string is loaded, scrolled to the top and
\* wrapped at the width of the viewport; shouldShowScrollBar is computed in
\* either case.
DefaultViewportSetContent(d, inputData) ==
    LET vp == IF inputData.isString
              THEN SetWrappedLines(
                      [viewportSetContent(d.viewport, inputData.chars)
                          EXCEPT !.YOffset = 0],
                      d.viewport.Width)
              ELSE d.viewport
    IN  [d EXCEPT !.viewport = vp,
                  !.shouldShowScrollBar =
                     VisibleLineCount(vp) < TotalLineCount(vp)]

\* DefaultViewport.Init: acts once.
DefaultViewportInit(d, width, height, inputData) ==
    IF ~d.hasBeenInitialized
    THEN DefaultViewportSetContent(
             DefaultViewportSetDimensions(
                 [d EXCEPT !.viewport = viewportNew(width, height),
                           !.hasBeenInitialized = TRUE],
                 width, height),
             inputData)
    ELSE d

\* DefaultViewport.LineDown(n) and LineUp(n) move by one line whatever n is;
\* HalfViewDown/Up move by half the height and ViewDown/Up by the height.
DefaultViewportLineDown(d, n) ==
    [d EXCEPT !.viewport = viewportLineDown(@, 1)]
DefaultViewportLineUp(d, n) ==
    [d EXCEPT !.viewport = viewportLineUp(@, 1)]
DefaultViewportHalfViewDown(d) ==
    [d EXCEPT !.viewport = viewportLineDown(@, @.Height \div 2)]
DefaultViewportHalfViewUp(d) ==
    [d EXCEPT !.viewport = viewportLineUp(@, @.Height \div 2)]
DefaultViewportViewDown(d) ==
    [d EXCEPT !.viewport = viewportLineDown(@, @.Height)]
DefaultViewportViewUp(d) ==
    [d EXCEPT !.viewport = viewportLineUp(@, @.Height)]

\* The viewer is held in data; last names the last call made on it.
ViewerInit ==
    /\ data = ZeroDefaultViewport
    /\ last = NoEvent
    /\ m = NoModel
    /\ row = NoRow
    /\ ret = <<0, 0>>
    /\ cfg = NoCfg

ViewerCall(type, d) ==
    /\ data' = d
    /\ last' = [type |-> type, Index |-> -1]
    /\ UNCHANGED <<row, ret, cfg, m>>

\* Update(tea.WindowSizeMsg) sets the dimensions, initialized or not.
ViewerSetDimensions(termWidth, termHeight) ==
    ViewerCall("SetDimensions",
               DefaultViewportSetDimensions(data, ViewportWidth(termWidth),
                                            ViewportHeight(termHeight)))

\* setOutput() calls Init on a viewer that is not initialized and
\* SetContent on one that is.
ViewerSetOutput(termWidth, termHeight, inputData) ==
    IF ~data.hasBeenInitialized
    THEN ViewerCall("Init",
                    DefaultViewportInit(data, ViewportWidth(termWidth),
                                        ViewportHeight(termHeight),
                                        inputData))
    ELSE ViewerCall("SetContent", DefaultViewportSetContent(data, inputData))

\* The scroll keys reach a viewer that has been shown: Update calls the
\* method of the key.
ViewerScroll(call) ==
    /\ data.hasBeenInitialized
    /\ ViewerCall(call,
          CASE call = "LineDown" -> DefaultViewportLineDown(data, 1)
            [] call = "LineUp" -> DefaultViewportLineUp(data, 1)
            [] call = "HalfViewDown" -> DefaultViewportHalfViewDown(data)
            [] call = "HalfViewUp" -> DefaultViewportHalfViewUp(data)
            [] call = "ViewDown" -> DefaultViewportViewDown(data)
            [] call = "ViewUp" -> DefaultViewportViewUp(data))

ViewerNext ==
    \/ \E w \in TermWidths, h \in TermHeights : ViewerSetDimensions(w, h)
    \/ \E w \in TermWidths, h \in TermHeights, c \in InputData :
          ViewerSetOutput(w, h, c)
    \/ \E call \in {"LineDown", "LineUp", "HalfViewDown", "HalfViewUp",
                    "ViewDown", "ViewUp"} : ViewerScroll(call)

SpecViewer == ViewerInit /\ [][ViewerNext]_vars

\* C27: in every state the scrollbar indicator of the output viewer is
\* needed exactly when the visible line count is smaller than the total
\* wrapped line count: after setting content, after setting new dimensions
\* and after scrolling.
C27_ScrollBarFollowsLineCounts ==
    data.shouldShowScrollBar <=>
       VisibleLineCount(data.viewport) < TotalLineCount(data.viewport)

\* The task t with the fields an event may write taken from the task u.
WithMutableOfTask(t, u) ==
    [t EXCEPT !.status = u.status,
              !.customSuccessStatus = u.customSuccessStatus,
              !.hasOutput = u.hasOutput,
              !.viewportInputData = u.viewportInputData]

\* b is a dashboard with the rows and tasks of a: the same row indexes and
\* columns, and in every row the same name, prefix values, task indexes,
\* task names and run-anyway lists; the rows differ at most in the status
\* of the row and of its tasks, in the active, default and selected task
\* index and in the output fields of the tasks.
SameRowsAndTasks(a, b) ==
    /\ b.panic = NoPanic
    /\ DOMAIN b.rows = DOMAIN a.rows
    /\ b.taskColumns = a.taskColumns
    /\ b.prefixColumns = a.prefixColumns
    /\ \A k \in DOMAIN a.rows :
          LET r == a.rows[k]
              s == b.rows[k]
          IN  /\ s.name = r.name
              /\ s.prefixValues = r.prefixValues
              /\ DOMAIN s.tasks = DOMAIN r.tasks
              /\ \A t \in DOMAIN r.tasks :
                    /\ s.tasks[t].name = r.tasks[t].name
                    /\ s.tasks[t].shouldRunAnywayFor
                          = r.tasks[t].shouldRunAnywayFor
              /\ r = [s EXCEPT
                         !.status = r.status,
                         !.activeTaskIndex = r.activeTaskIndex,
                         !.defaultTaskIndex = r.defaultTaskIndex,
                         !.selectedTaskIndex = r.selectedTaskIndex,
                         !.tasks = [t \in DOMAIN s.tasks |->
                                      WithMutableOfTask(s.tasks[t],
                                                        r.tasks[t])]]

\* The events of the dashboard and the successes that carry a custom
\* success status.
ReportedEvents ==
    DashEvents \cup {e \in TaskResultMsgs :
                       /\ e.Status = Success
                       /\ e.ForceDefault => e.Output # Nil}

\* C28: no task-result event and no key press adds, removes or reorders
\* rows or tasks or changes a row's name, prefix values, task names or
\* run-anyway lists: in every reachable state of the running dashboard,
\* every key and every event for one of its rows, also one with a custom
\* success status, leaves all of that as it is and changes only statuses, the active,
\* default and selected task indexes and output fields.
C28_EventsKeepRowsAndTasks ==
    Running =>
       /\ \A k \in Keys : SameRowsAndTasks(m, KeyMsgUpdate(m, k))
       /\ \A i \in DOMAIN m.rows, e \in ReportedEvents :
             SameRowsAndTasks(m, TaskResultMsgUpdate(m, DashMsg(m, i, e)))

\* C28 witness: events and keys have been processed: the first row has
\* finished with output on both tasks, the pane is open on its second
\* task, and the tasks still carry their names and the run-anyway list.
C28_Witness ==
    /\ Running
    /\ last.type = "KeyMsg"
    /\ m.showOutput
    /\ m.selectedRow = 0
    /\ m.rows[0].status \in TerminalRowStatuses
    /\ m.rows[0].selectedTaskIndex = 1
    /\ m.rows[0].tasks[0].hasOutput
    /\ m.rows[0].tasks[1].hasOutput
    /\ m.rows[0].tasks[0].name = ColName(0)
    /\ m.rows[0].tasks[1].shouldRunAnywayFor = {ColName(0)}

----------------------------------------------------------------------------
(* Two workers, one per row, send their events concurrently: the program   *)
(* delivers them to Update one at a time, in any order that keeps the      *)
(* order of each worker.                                                   *)

MaxScript == 2

\* What a worker reports when a task ends: its status, with its output.
ScriptEvents ==
    {e \in DashEvents :
        /\ e.Status \in {Success, Warning, Failure}
        /\ e.Output # Nil
        /\ ~e.ForceDefault}

\* The events one worker sends, in its order.
Scripts == UNION {[1..n -> ScriptEvents] : n \in 0..MaxScript}

\* The dashboard of the two workers: two rows with a task on both columns.
WorkerModel(rows) == NewModel(rows, DashColumns, <<"Scan Type">>, 1)

\* Update(TaskResultMsg) for the events of script from the k-th on, all
\* addressed to row i.
RECURSIVE RunScript(_, _, _, _)
RunScript(md, i, script, k) ==
    IF k > Len(script) THEN md
    ELSE RunScript(TaskResultMsgUpdate(md, DashMsg(md, i, script[k])),
                   i, script, k + 1)

\* cfg holds the rows and the scripts, data the number of events each worker
\* has sent.
WorkersInit ==
    /\ \E rows \in [0..1 -> DashRows(0)], scripts \in [0..1 -> Scripts] :
          /\ cfg = [rows |-> rows, scripts |-> scripts]
          /\ m = WorkerModel(rows)
    /\ data = [sent |-> [i \in 0..1 |-> 0]]
    /\ row = NoRow
    /\ ret = <<0, 0>>
    /\ last = NoEvent

\* The next event of worker i reaches Update.
WorkerSends(i) ==
    /\ Running
    /\ data.sent[i] < Len(cfg.scripts[i])
    /\ m' = TaskResultMsgUpdate(
                m, DashMsg(m, i, cfg.scripts[i][data.sent[i] + 1]))
    /\ last' = [type |-> "TaskResultMsg", Index |-> i]
    /\ data' = [data EXCEPT !.sent[i] = @ + 1]
    /\ UNCHANGED <<row, ret, cfg>>

\* The user moves the cursor between the rows meanwhile.
CursorKey(k) == KeyMsg(k)

WorkersNext ==
    \/ \E i \in 0..1 : WorkerSends(i)
    \/ \E k \in {"LineDown", "LineUp"} : CursorKey(k)

SpecWorkers == WorkersInit /\ [][WorkersNext]_vars

\* The statuses of the tasks and of the rows, and the counts.
Statuses(md) ==
    [ tasks  |-> [k \in DOMAIN md.rows |->
                    [t \in DOMAIN md.rows[k].tasks |->
                        md.rows[k].tasks[t].status]],
      rows   |-> [k \in DOMAIN md.rows |-> md.rows[k].status],
      counts |-> md.statusCounts ]

\* C29: for task-result events addressed to different rows, every
\* interleaving that keeps each row's own order of events ends with the
\* same task statuses, row statuses and counts, those of the run that
\* delivers all events of the first row before those of the second; and an
\* event for row i changes nothing of a row j # i.
C29_RowsAreIndependent ==
    /\ (\A i \in 0..1 : data.sent[i] = Len(cfg.scripts[i])) =>
          Statuses(m) =
             Statuses(RunScript(RunScript(WorkerModel(cfg.rows), 0,
                                          cfg.scripts[0], 1),
                                1, cfg.scripts[1], 1))
    /\ \A i \in DOMAIN m.rows, e \in ScriptEvents :
          \A j \in DOMAIN m.rows :
             j # i => TaskResultMsgUpdate(m, DashMsg(m, i, e)).rows[j]
                         = m.rows[j]

\* C29 witness: both workers have sent two events, the last one delivered
\* was the first row's, after both events of the second row; the second
\* row has failed and the first has not.
C29_Witness ==
    /\ data.sent = [i \in 0..1 |-> MaxScript]
    /\ last = [type |-> "TaskResultMsg", Index |-> 0]
    /\ m.rows[1].status = RowFailure
    /\ m.rows[0].status = RowWarning
    /\ m.statusCounts = (RowWarning :> 1) @@ (RowFailure :> 1)

----------------------------------------------------------------------------
(* The worker of one application, packageAndUploadApplication, and the row *)
(* of the application that receives what it reports.                       *)

\* The options of an application that the worker and getRows read:
\* PackageSource stands for PackageSource != "", Clone for Type == Repo or
\* Branch != "".
AppOptions ==
    {c \in [ScanType : {"policy", "sandbox"}, PackageSource : BOOLEAN,
             Clone : BOOLEAN, AutoCleanup : BOOLEAN,
             WaitForResult : BOOLEAN, AutoPromote : BOOLEAN] :
        c.Clone => c.PackageSource}

hasPromoteTask(c) ==
    c.ScanType = "promote" \/ (c.ScanType = "sandbox" /\ c.AutoPromote)
hasPackageTask(c) ==
    c.ScanType \in {"policy", "sandbox"} /\ c.PackageSource
hasCleanupTask(c) ==
    c.ScanType \in {"policy", "sandbox"} /\ c.PackageSource
       /\ c.AutoCleanup
hasResultTask(c) ==
    (c.ScanType \in {"policy", "sandbox"} /\ c.WaitForResult)
       \/ c.AutoPromote
hasUploadTask(c) == c.ScanType \in {"policy", "sandbox"}
hasPolicyTask(c) ==
    (c.ScanType = "policy" /\ c.WaitForResult)
       \/ (c.ScanType = "sandbox" /\ c.AutoPromote)

\* getColumns when every column has a task in some application.
getColumns ==
    <<"Package", "Upload", "Cleanup", "Result", "Promote", "Policy">>

\* getRows: the row of the application, started by NewModel.
getRows(c) ==
    LET task(has, name, ra) == IF has THEN <<NewTask(name, ra)>> ELSE <<>>
        tasks == task(hasPackageTask(c), "Package", {})
                 \o task(hasUploadTask(c), "Upload", {})
                 \o task(hasCleanupTask(c), "Cleanup", {"Package", "Upload"})
                 \o task(hasResultTask(c), "Result", {})
                 \o task(hasPolicyTask(c), "Policy", {})
                 \o task(hasPromoteTask(c), "Promote", {})
    IN  RowStart(NewRow("app", tasks, <<c.ScanType>>, getColumns).row)

\* reporter.Send(TaskResultMsg{...}) as the row of the application sees it.
Send(r, status, output, custom) ==
    RowUpdate(r, [Status |-> status, Output |-> output,
                  ForceDefault |-> FALSE,
                  CustomSuccessStatus |-> custom]).row

SendFailure(r) == Send(r, Failure, "out", NoCustom)

\* The worker is held in data: the call it has reached, where it goes on
\* after cleanupTask and the number of events it has sent.
WorkerInit ==
    /\ cfg \in AppOptions
    /\ row = getRows(cfg)
    /\ data = [pc |-> "initializeLogWriter", then |-> "returned", sent |-> 0]
    /\ m = NoModel
    /\ ret = <<0, 0>>
    /\ last = NoEvent

\* The worker goes on at pc with the row r after n events.
Goto(r, pc, then, n) ==
    /\ row' = r
    /\ data' = [pc |-> pc, then |-> then, sent |-> data.sent + n]
    /\ UNCHANGED <<ret, last, cfg, m>>

shouldAutoPromote(c) == c.AutoPromote /\ c.ScanType = "sandbox"

\* Where the worker goes on after the cleanupTask that follows the upload.
AfterUpload(c) ==
    IF shouldAutoPromote(c) THEN "autoPromoteTask"
    ELSE IF c.WaitForResult THEN "waitForResultTask"
    ELSE "returned"

\* Each action is one call of the worker that may fail, with what the
\* worker does with its outcome; ok is the outcome.
initializeLogWriter(ok) ==
    /\ data.pc = "initializeLogWriter"
    /\ IF ok
       THEN Goto(row, IF cfg.PackageSource THEN "createAppPackagingOutputDir"
                      ELSE "UploadAndScanApplication", "returned", 0)
       ELSE Goto(SendFailure(row), "returned", "returned", 1)

createAppPackagingOutputDir(ok) ==
    /\ data.pc = "createAppPackagingOutputDir"
    /\ IF ok
       THEN Goto(row, IF cfg.Clone THEN "CloneRepository"
                      ELSE "PackageApplication", "returned", 0)
       ELSE Goto(SendFailure(row), "returned", "returned", 1)

CloneRepository(ok) ==
    /\ data.pc = "CloneRepository"
    /\ IF ok
       THEN Goto(row, "PackageApplication", "returned", 0)
       ELSE Goto(SendFailure(row), "cleanupTask", "returned", 1)

PackageApplication(ok, warning) ==
    /\ data.pc = "PackageApplication"
    /\ IF ok
       THEN Goto(Send(row, IF warning THEN Warning ELSE Success, "out",
                      NoCustom),
                 "UploadAndScanApplication", "returned", 1)
       ELSE Goto(SendFailure(row), "cleanupTask", "returned", 1)

UploadAndScanApplication(ok) ==
    /\ data.pc = "UploadAndScanApplication"
    /\ IF ok
       THEN Goto(Send(row, Success, "out", NoCustom), "cleanupTask",
                 AfterUpload(cfg), 1)
       ELSE Goto(SendFailure(row), "cleanupTask", "returned", 1)

\* cleanupTask: os.RemoveAll is called and its outcome reported only with
\* AutoCleanup and a package source.
cleanupTask(ok) ==
    /\ data.pc = "cleanupTask"
    /\ IF cfg.AutoCleanup /\ cfg.PackageSource
       THEN Goto(IF ok THEN Send(row, Success, Nil, NoCustom)
                 ELSE SendFailure(row),
                 data.then, "returned", 1)
       ELSE Goto(row, data.then, "returned", 0)

\* waitForResultTask: the Result column and, for a policy scan, the Policy
\* column.
waitForResultTask(ok) ==
    /\ data.pc = "waitForResultTask"
    /\ IF ok
       THEN LET r1 == Send(row, Success, Nil, "custom")
            IN  IF cfg.ScanType = "policy"
                THEN Goto(Send(r1, Success, Nil, "custom"), "returned",
                          "returned", 2)
                ELSE Goto(r1, "returned", "returned", 1)
       ELSE Goto(SendFailure(row), "returned", "returned", 1)

\* autoPromoteTask up to the promotion: the Result column, and the Promote
\* column when the policy was not passed.
autoPromoteTask(ok, PassedPolicy) ==
    /\ data.pc = "autoPromoteTask"
    /\ IF ok
       THEN LET r1 == Send(row, Success, Nil, "custom")
            IN  IF PassedPolicy
                THEN Goto(r1, "PromoteSandbox", "returned", 1)
                ELSE Goto(SendFailure(r1), "returned", "returned", 2)
       ELSE Goto(SendFailure(row), "returned", "returned", 1)

PromoteSandbox(ok) ==
    /\ data.pc = "PromoteSandbox"
    /\ IF ok
       THEN Goto(Send(row, Success, Nil, NoCustom), "GetSummaryReport",
                 "returned", 1)
       ELSE Goto(SendFailure(row), "returned", "returned", 1)

GetSummaryReport(ok) ==
    /\ data.pc = "GetSummaryReport"
    /\ Goto(IF ok THEN Send(row, Success, Nil, "custom")
            ELSE SendFailure(row),
            "returned", "returned", 1)

WorkerNext ==
    \/ \E ok \in BOOLEAN : initializeLogWriter(ok)
    \/ \E ok \in BOOLEAN : createAppPackagingOutputDir(ok)
    \/ \E ok \in BOOLEAN : CloneRepository(ok)
    \/ \E ok, warning \in BOOLEAN : PackageApplication(ok, warning)
    \/ \E ok \in BOOLEAN : UploadAndScanApplication(ok)
    \/ \E ok \in BOOLEAN : cleanupTask(ok)
    \/ \E ok \in BOOLEAN : waitForResultTask(ok)
    \/ \E ok, PassedPolicy \in BOOLEAN : autoPromoteTask(ok, PassedPolicy)
    \/ \E ok \in BOOLEAN : PromoteSandbox(ok)
    \/ \E ok \in BOOLEAN : GetSummaryReport(ok)

SpecWorker == WorkerInit /\ [][WorkerNext]_vars

\* The tasks of a row that have been made active: those that are running
\* or have ended.
MadeActive(r) ==
    {k \in DOMAIN r.tasks :
        r.tasks[k].status \in {InProgress, Success, Warning, Failure}}

\* C30: on every path through packageAndUploadApplication, early failures
\* included, the worker sends exactly one result event for each task the
\* row makes active, so that when the worker returns the row of the
\* application has a terminal status and no task is left InProgress.
C30_WorkerFinishesItsRow ==
    data.pc = "returned" =>
       /\ row.status \in TerminalRowStatuses
       /\ InProgressIndexes(row) = {}
       /\ data.sent = Cardinality(MadeActive(row))

----------------------------------------------------------------------------
(* The selection grid, selector[T] (selector.go): a cursor over a grid of  *)
(* items, of which a cell is selectable when it holds an item.              *)

MaxSelRows == 3     \* rows of the grid
MaxSelCols == 3     \* columns of the grid
MaxStep == 2        \* the step MoveCursor is given

up == 0
right == 1
down == 2
left == 3

directions == {up, right, down, left}

PanicNilItem == "invalid memory address or nil pointer dereference"

\* newSelector(numColumns, numRows): a grid without items, the cursor on
\* (0, 0).  selectableItems[i][j] is TRUE when the cell holds an item.
newSelector(numColumns, numRows) ==
    [ hasChanged         |-> TRUE,
      notFirst           |-> FALSE,
      selectedItemRow    |-> 0,
      selectedItemColumn |-> 0,
      selectableItems    |-> [i \in 0..(numRows - 1) |->
                                 [j \in 0..(numColumns - 1) |-> FALSE]],
      panic              |-> NoPanic ]

\* AddSelectable(item, row, col): the first item added takes the cursor.
AddSelectable(s, r, c) ==
    LET s1 == [s EXCEPT !.selectableItems[r][c] = TRUE]
    IN  IF ~s.notFirst
        THEN [s1 EXCEPT !.selectedItemRow = r, !.selectedItemColumn = c,
                        !.notFirst = TRUE]
        ELSE s1

\* The inner loop of MoveCursor (up and down): the first column from j on
\* whose cell in row i holds an item, -1 when there is none.
RECURSIVE firstItemColumn(_, _, _)
firstItemColumn(s, i, j) ==
    IF j >= Cardinality(DOMAIN s.selectableItems[i]) THEN -1
    ELSE IF s.selectableItems[i][j] THEN j
    ELSE firstItemColumn(s, i, j + 1)

\* The loops of MoveCursor for up (d = -1) and down (d = 1), from row i on:
\* the first row with an item takes the cursor, on the cursor's column if
\* that cell holds an item and on the row's first item otherwise.
RECURSIVE MoveCursorRows(_, _, _)
MoveCursorRows(s, i, d) ==
    IF i < 0 \/ i >= Cardinality(DOMAIN s.selectableItems)
    THEN [s |-> s, didMove |-> FALSE]
    ELSE IF s.selectableItems[i][s.selectedItemColumn]
    THEN [s |-> [s EXCEPT !.selectedItemRow = i], didMove |-> TRUE]
    ELSE LET j == firstItemColumn(s, i, 0)
         IN  IF j >= 0
             THEN [s |-> [s EXCEPT !.selectedItemColumn = j,
                                   !.selectedItemRow = i],
                   didMove |-> TRUE]
             ELSE MoveCursorRows(s, i + d, d)

\* The loops of MoveCursor for right (d = 1) and left (d = -1), from column
\* i on, in the cursor's row.
RECURSIVE MoveCursorColumns(_, _, _)
MoveCursorColumns(s, i, d) ==
    IF i < 0 \/ i >= Cardinality(DOMAIN s.selectableItems[s.selectedItemRow])
    THEN [s |-> s, didMove |-> FALSE]
    ELSE IF s.selectableItems[s.selectedItemRow][i]
    THEN [s |-> [s EXCEPT !.selectedItemColumn = i], didMove |-> TRUE]
    ELSE MoveCursorColumns(s, i + d, d)

\* MoveCursor(direction, step): the selector it leaves and what it returns.
\* The returned item is *selectableItems[row][col], a nil pointer
\* dereference when the cursor's cell holds no item.
MoveCursor(s, direction, step) ==
    LET mv == CASE direction = up ->
                      MoveCursorRows(s, s.selectedItemRow - step, -1)
                 [] direction = down ->
                      MoveCursorRows(s, s.selectedItemRow + step, 1)
                 [] direction = right ->
                      MoveCursorColumns(s, s.selectedItemColumn + step, 1)
                 [] direction = left ->
                      MoveCursorColumns(s, s.selectedItemColumn - step, -1)
        s1 == IF mv.didMove THEN [mv.s EXCEPT !.hasChanged = TRUE] ELSE mv.s
    IN  IF ~s1.selectableItems[s1.selectedItemRow][s1.selectedItemColumn]
        THEN [s |-> [s1 EXCEPT !.panic = PanicNilItem],
              row |-> -1, col |-> -1, didMove |-> FALSE]
        ELSE [s |-> s1, row |-> s1.selectedItemRow,
              col |-> s1.selectedItemColumn, didMove |-> mv.didMove]

SelectorInit ==
    /\ cfg \in [numColumns : 1..MaxSelCols, numRows : 1..MaxSelRows]
    /\ data = newSelector(cfg.numColumns, cfg.numRows)
    /\ last = NoEvent
    /\ ret = <<0, 0>>
    /\ row = NoRow
    /\ m = NoModel

\* s.AddSelectable(item, r, c) for a cell of the grid.
SelectorAdd(r, c) ==
    /\ data.panic = NoPanic
    /\ data' = AddSelectable(data, r, c)
    /\ last' = [type |-> "AddSelectable", Index |-> r]
    /\ UNCHANGED <<row, ret, cfg, m>>

\* s.MoveCursor(direction, step); ret holds the returned row and column.
SelectorMove(direction, step) ==
    LET r == MoveCursor(data, direction, step)
    IN  /\ data.panic = NoPanic
        /\ data' = r.s
        /\ ret' = <<r.row, r.col>>
        /\ last' = [type |-> IF r.didMove THEN "moved" ELSE "stayed",
                    Index |-> direction]
        /\ UNCHANGED <<row, cfg, m>>

SelectorNext ==
    \/ \E r \in 0..(cfg.numRows - 1), c \in 0..(cfg.numColumns - 1) :
          SelectorAdd(r, c)
    \/ \E direction \in directions, step \in 1..MaxStep :
          SelectorMove(direction, step)

SpecSelector == SelectorInit /\ [][SelectorNext]_vars

\* The rows on the side d of the cursor (d = -1 above, d = 1 below) that
\* hold an item, and the columns on the side d of the cursor in its row.
ItemRows(s, d) ==
    {i \in DOMAIN s.selectableItems :
        /\ (i - s.selectedItemRow) * d > 0
        /\ \E j \in DOMAIN s.selectableItems[i] : s.selectableItems[i][j]}

ItemColumns(s, d) ==
    {j \in DOMAIN s.selectableItems[s.selectedItemRow] :
        /\ (j - s.selectedItemColumn) * d > 0
        /\ s.selectableItems[s.selectedItemRow][j]}

\* The member of the nonempty set S nearest to the cursor on the side d.
Nearest(S, d) == IF d > 0 THEN Min(S) ELSE Max(S)

\* The cell the cursor is to be on after a move: <<row, col, didMove>>.
NearestCell(s, direction) ==
    LET d == IF direction \in {down, right} THEN 1 ELSE -1
    IN  IF direction \in {left, right}
        THEN IF ItemColumns(s, d) = {}
             THEN <<s.selectedItemRow, s.selectedItemColumn, FALSE>>
             ELSE <<s.selectedItemRow, Nearest(ItemColumns(s, d), d), TRUE>>
        ELSE IF ItemRows(s, d) = {}
             THEN <<s.selectedItemRow, s.selectedItemColumn, FALSE>>
             ELSE LET i == Nearest(ItemRows(s, d), d)
                  IN  <<i,
                        IF s.selectableItems[i][s.selectedItemColumn]
                        THEN s.selectedItemColumn
                        ELSE Min({j \in DOMAIN s.selectableItems[i] :
                                     s.selectableItems[i][j]}),
                        TRUE>>

\* C31: MoveCursor puts the cursor on the nearest selectable cell in the
\* direction given and never wraps: left and right take the nearest cell
\* with an item in the cursor's row; up and down take the nearest row in the
\* direction with an item, on the cursor's column if that cell has an item
\* and on the row's lowest column with an item otherwise; without such a
\* cell the position is returned unchanged with didMove false.
C31_MoveCursorNearest ==
    data.panic = NoPanic =>
       \A direction \in directions, step \in 1..MaxStep :
          LET r == MoveCursor(data, direction, step)
          IN  /\ r.s.panic = NoPanic
              /\ <<r.row, r.col, r.didMove>> = NearestCell(data, direction)
              /\ <<r.s.selectedItemRow, r.s.selectedItemColumn>>
                    = <<r.row, r.col>>

----------------------------------------------------------------------------
(* The row and its tasks together.                                         *)

FinalTaskStatuses == {Success, Warning, Failure, Skip}

\* C32: whenever the row's status is RowSuccess, RowWarning or RowFailure,
\* every task of the row is Success, Warning, Failure or Skip: none is
\* InProgress or NotStarted.
C32_TerminalRowHasFinalTasks ==
    row.status \in TerminalRowStatuses =>
       \A k \in DOMAIN row.tasks : row.tasks[k].status \in FinalTaskStatuses

\* C33: whenever the row's status is RowStarted, activeTaskIndex is the index
\* of a task and that task is InProgress, so an accepted result is written
\* to a task that is in progress.
C33_ActiveTaskInProgress ==
    row.status = RowStarted =>
       /\ row.activeTaskIndex \in DOMAIN row.tasks
       /\ row.tasks[row.activeTaskIndex].status = InProgress

\* C33 witness: an accepted Failure has moved the row on to a later task,
\* which runs anyway.
C33_Witness ==
    /\ row.status = RowStarted
    /\ last # NoMsg
    /\ last.Status = Failure
    /\ row.activeTaskIndex > 0
    /\ \E k \in DOMAIN row.tasks : row.tasks[k].status = Failure

----------------------------------------------------------------------------
(* One row whose results are delivered without ForceDefault: the accepted *)
(* events are counted, and start() and the delivery of a result to a       *)
(* started row are fair.                                                   *)

\* The results delivered: every status, with and without output, none with
\* ForceDefault.
LiveEvents == {msg \in TaskResultMsgs : ~msg.ForceDefault}

\* update() acts on the event: the row is started and the status is not
\* turned away.
Accepted(r, msg) == ~UpdateRejected(r) /\ ~IgnoredStatus(msg)

LiveInit ==
    /\ \E supplied \in SuppliedTasks :
          row = NewRow("app", TaskList(supplied, 0), <<"type">>, Columns).row
    /\ ret = <<0, 0>>
    /\ last = NoMsg
    /\ cfg = NoCfg
    /\ data = [accepted |-> 0]
    /\ m = NoModel

LiveStart ==
    /\ row' = RowStart(row)
    /\ UNCHANGED <<ret, last, cfg, data, m>>

\* r.update(msg); data.accepted counts the events update() acts on.
LiveUpdate(msg) ==
    LET u == RowUpdate(row, msg)
    IN  /\ data.accepted <= NumCols
        /\ row' = u.row
        /\ ret' = <<u.prev, u.cur>>
        /\ last' = [Status |-> msg.Status]
        /\ data' = IF Accepted(row, msg)
                   THEN [data EXCEPT !.accepted = @ + 1]
                   ELSE data
        /\ UNCHANGED <<cfg, m>>

\* The result of the active task arrives.
Deliver == \E msg \in LiveEvents : Accepted(row, msg) /\ LiveUpdate(msg)

LiveNext ==
    \/ LiveStart
    \/ \E msg \in LiveEvents : LiveUpdate(msg)

SpecLive ==
    /\ LiveInit
    /\ [][LiveNext]_vars
    /\ WF_vars(LiveStart)
    /\ WF_vars(Deliver)

\* An accepted update makes the row terminal or moves activeTaskIndex up.
AcceptedUpdatesAdvance ==
    \A msg \in LiveEvents :
       Accepted(row, msg) =>
          LET u == RowUpdate(row, msg)
          IN  \/ u.row.status \in TerminalRowStatuses
              \/ /\ u.row.status = RowStarted
                 /\ u.row.activeTaskIndex > row.activeTaskIndex

\* C34: every accepted update (started row, status other than InProgress and
\* NotStarted) makes the row terminal or moves activeTaskIndex to a strictly
\* larger index; a row of n tasks has accepted at most n events, and is
\* terminal when it has accepted n; and when the result of each active task
\* is eventually delivered the row eventually becomes terminal.
C34_RowTerminates ==
    /\ [](/\ AcceptedUpdatesAdvance
          /\ data.accepted <= NumTasks(row.tasks)
          /\ data.accepted = NumTasks(row.tasks)
                => row.status \in TerminalRowStatuses)
    /\ <>(row.status \in TerminalRowStatuses)

\* C34 witness: a row of n tasks is terminal after n accepted events.
C34_Witness ==
    /\ row.status \in TerminalRowStatuses
    /\ data.accepted = NumTasks(row.tasks)
    /\ \A k \in DOMAIN row.tasks : row.tasks[k].status # Skip

----------------------------------------------------------------------------
(* The output pane of the dashboard.                                       *)

\* C35: whenever the output pane is shown, the content the output viewer
\* holds is the output of the selected task of the selected row, after any
\* sequence of key presses and task results, results for the selected row
\* that change its default display task while the pane is open included.
C35_ViewerShowsSelectedTask ==
    (m.panic = NoPanic /\ m.showOutput) =>
       m.defaultViewport.content = getOutput(m.rows[m.selectedRow])

\* C36: in every reachable state a shown output pane means that the selected
\* row has output to display.  A key press opens the pane only when it is
\* the ShowOutput key on a row with output, and a key press that moves the
\* row cursor to a row without output leaves the pane closed.
C36_PaneOnlyOnRowWithOutput ==
    m.panic = NoPanic =>
       /\ m.showOutput => hasOutputToDisplay(m.rows[m.selectedRow])
       /\ \A k \in Keys :
             LET n == KeyMsgUpdate(m, k)
             IN  /\ (n.showOutput /\ ~m.showOutput) =>
                       /\ k = "ShowOutput"
                       /\ hasOutputToDisplay(m.rows[m.selectedRow])
                 /\ (/\ n.selectedRow # m.selectedRow
                     /\ ~hasOutputToDisplay(n.rows[n.selectedRow]))
                       => ~n.showOutput

\* C36 witness: the pane was open on the first row (the scroll keys are
\* still enabled) and the cursor has moved to the second row, which has no
\* output: the pane is closed.
C36_Witness ==
    /\ m.panic = NoPanic
    /\ last.type = "KeyMsg"
    /\ m.selectedRow = 1
    /\ ~hasOutputToDisplay(m.rows[1])
    /\ hasOutputToDisplay(m.rows[0])
    /\ m.KeyMap.Down
    /\ ~m.showOutput

----------------------------------------------------------------------------
(* The output selection of the row.                                        *)

\* -1, or the index of a task of r that has output.
UnsetOrWithOutput(r, k) ==
    k = -1 \/ (k \in DOMAIN r.tasks /\ r.tasks[k].hasOutput)

\* Every task of r that has output has output in r2.
KeepsOutputs(r, r2) ==
    \A k \in DOMAIN r.tasks : r.tasks[k].hasOutput => r2.tasks[k].hasOutput

\* C37: in every reachable state of the row defaultTaskIndex and
\* selectedTaskIndex are each -1 or the index of a task with hasOutput;
\* defaultTaskIndex >= 0 iff some task of the row has output; and no call
\* takes hasOutput away from a task that has it.
C37_SelectionPointsAtOutput ==
    /\ UnsetOrWithOutput(row, row.defaultTaskIndex)
    /\ UnsetOrWithOutput(row, row.selectedTaskIndex)
    /\ row.defaultTaskIndex >= 0 <=> HasAnyOutput(row)
    /\ \A msg \in TaskResultMsgs : KeepsOutputs(row, RowUpdate(row, msg).row)
    /\ KeepsOutputs(row, RowStart(row))
    /\ KeepsOutputs(row, setSelected(row))
    /\ KeepsOutputs(row, moveLeft(row))
    /\ KeepsOutputs(row, moveRight(row))

\* C37 witness: two tasks have output, the later one is the default and the
\* selection has been moved left to the earlier one.
C37_Witness ==
    /\ row.defaultTaskIndex > 0
    /\ row.selectedTaskIndex >= 0
    /\ row.selectedTaskIndex < row.defaultTaskIndex
    /\ row.tasks[row.selectedTaskIndex].hasOutput
    /\ row.tasks[row.defaultTaskIndex].hasOutput

----------------------------------------------------------------------------
(* The page keys at the ends of the table.                                 *)

OnFirstPage(md) == md.pageCurrentStart - md.pageSize < 0
OnLastPage(md) == md.pageCurrentEnd + 1 >= NumTasks(md.rows)

\* The cursor, the page window, the sub-selection of the selected row and
\* the viewer's content and scroll position are in n what they are in md.
SameCursorAndViewer(md, n) ==
    /\ n.selectedRow = md.selectedRow
    /\ PageWindow(n) = PageWindow(md)
    /\ n.rows[n.selectedRow].selectedTaskIndex
          = md.rows[md.selectedRow].selectedTaskIndex
    /\ n.defaultViewport.content = md.defaultViewport.content
    /\ n.defaultViewport.yOffset = md.defaultViewport.yOffset

\* C38: a page-up key on the first page and a page-down key on the last page
\* change nothing: not the selected row and the page window, and not the
\* selected row's selectedTaskIndex nor the content and the scroll position
\* of the output viewer.
C38_PageKeyAtEndIsNoOp ==
    m.panic = NoPanic =>
       /\ OnFirstPage(m) =>
             SameCursorAndViewer(m, KeyMsgUpdate(m, "PageUpSummary"))
       /\ OnLastPage(m) =>
             SameCursorAndViewer(m, KeyMsgUpdate(m, "PageDownSummary"))

----------------------------------------------------------------------------
(* The default display task when no event forces it.                       *)

FailureOrWarning(r, k) ==
    k \in DOMAIN r.tasks /\ r.tasks[k].status \in {Failure, Warning}

\* C39: when no event uses ForceDefault, in every reachable state of the row
\* in which some task with output is Failure or Warning the default display
\* task is Failure or Warning; and once the default is a Failure or Warning
\* task no Success, Warning or Failure event without ForceDefault replaces
\* it.
C39_DefaultStaysOnFailure ==
    /\ (\E k \in DOMAIN row.tasks :
           row.tasks[k].hasOutput /\ FailureOrWarning(row, k))
          => FailureOrWarning(row, row.defaultTaskIndex)
    /\ FailureOrWarning(row, row.defaultTaskIndex) =>
          \A msg \in LiveEvents :
             msg.Status \in {Success, Warning, Failure} =>
                RowUpdate(row, msg).row.defaultTaskIndex
                   = row.defaultTaskIndex

\* C39 witness: the default is a Warning task and a later task has failed
\* with output.
C39_Witness ==
    /\ row.defaultTaskIndex >= 0
    /\ row.tasks[row.defaultTaskIndex].status = Warning
    /\ \E k \in DOMAIN row.tasks :
          /\ k > row.defaultTaskIndex
          /\ row.tasks[k].status = Failure
          /\ row.tasks[k].hasOutput

----------------------------------------------------------------------------
(* What a task result leaves alone in the dashboard.                       *)

\* C40: a task result never changes selectedRow, the page window or whether
\* the output pane is shown; and a result for a row other than the selected
\* row changes no row's selectedTaskIndex and no key binding's enablement.
C40_EventKeepsCursorAndKeys ==
    m.panic = NoPanic =>
       \A i \in DOMAIN m.rows, e \in DashEvents :
          LET n == TaskResultMsgUpdate(m, DashMsg(m, i, e))
          IN  /\ n.panic = NoPanic
              /\ n.selectedRow = m.selectedRow
              /\ PageWindow(n) = PageWindow(m)
              /\ n.showOutput = m.showOutput
              /\ i # m.selectedRow =>
                    /\ \A j \in DOMAIN m.rows :
                          n.rows[j].selectedTaskIndex
                             = m.rows[j].selectedTaskIndex
                    /\ n.KeyMap = m.KeyMap
                    /\ n.RowKeyMap = m.RowKeyMap

\* C40 witness: with the pane open on the first row, the second row has
\* reported a result with output and has no task selected.
C40_Witness ==
    /\ m.panic = NoPanic
    /\ last.type = "TaskResultMsg"
    /\ last.Index = 1
    /\ m.selectedRow = 0
    /\ m.showOutput
    /\ HasAnyOutput(m.rows[1])
    /\ m.rows[1].selectedTaskIndex = -1

====
